---------------------------- MODULE Spec2Model ----------------------------
(***************************************************************************)
(* Verification model of @formflow.sh/react: the submission client         *)
(* (utils/api submitForm) and the useFormFlow hook that binds the          *)
(* react-hook-form submit lifecycle to it, the field validators            *)
(* (utils/validation validateField, validateEmail, validatePhone), and     *)
(* the FormFlow component with the six form templates built on it.         *)
(*                                                                         *)
(* JavaScript values are tagged records: Str(s), Undefined, JNull, ...     *)
(* Objects whose key order matters (payloads, serialised by                *)
(* JSON.stringify) are sequences of <<key, value>> pairs in insertion      *)
(* order; response bodies and result objects are TLA+ records, a key       *)
(* outside DOMAIN reading as Undefined.                                    *)
(***************************************************************************)
EXTENDS Naturals, Sequences, FiniteSets, TLC

\* ----------------------------------------------------------------- bounds
\* submitForm invocations by direct callers per behaviour
MaxCalls == 1
\* handleSubmit invocations on the hook's form per behaviour
MaxSubmits == 2
\* characters of a value given to validateField
MaxLen == 3
\* characters following the digits of a value given to validatePhone
MaxTail == 2
\* calls of the validators per behaviour
MaxValidations == 2
\* characters of a value given to validateEmail
MaxEmailLen == 5
\* submit events on a mounted FormFlow per behaviour
MaxFormSubmits == 2
\* controls of a form of the caller's own
MaxEntries == 3

\* ------------------------------------------------------------- JS values
Undefined == [t |-> "undefined"]
JNull == [t |-> "null"]
Str(s) == [t |-> "string", s |-> s]
Bool(b) == [t |-> "boolean", b |-> b]
BigInt == [t |-> "bigint"]
Arr(xs) == [t |-> "array", xs |-> xs]
Obj(kv) == [t |-> "object", kv |-> kv]

\* new Error(message): the only values for which `instanceof Error` holds
Error(name, message) == [t |-> "Error", name |-> name, message |-> message]
InstanceOfError(v) == v.t = "Error"

\* Truthy with the empty string taken for a value (a test against undefined)
TruthyUnlessMissing(v) ==
    CASE v.t = "undefined" -> FALSE
      [] v.t = "null" -> FALSE
      [] v.t = "boolean" -> v.b
      [] OTHER -> TRUE

\* JavaScript truthiness (the `!x` and `x || y` of the source)
Truthy(v) ==
    CASE v.t = "undefined" -> FALSE
      [] v.t = "null" -> FALSE
      [] v.t = "string" -> v.s # ""
      [] v.t = "boolean" -> v.b
      [] OTHER -> TRUE

\* obj.key on a parsed body (a record): Undefined when the key is absent
Get(obj, key) == IF key \in DOMAIN obj THEN obj[key] ELSE Undefined

\* --------------------------------------------------------- JSON.stringify
Throws == "<throws>"

RECURSIVE Join(_)
Join(parts) ==
    IF parts = <<>> THEN ""
    ELSE IF Len(parts) = 1 THEN parts[1]
    ELSE parts[1] \o "," \o Join(Tail(parts))

Quote(s) == "\"" \o s \o "\""

RECURSIVE Stringify(_)
\* JSON.stringify of one value; Throws for a value it cannot serialise.
\* (Strings of the model hold no character that needs escaping.)
Stringify(v) ==
    CASE v.t = "string" -> Quote(v.s)
      [] v.t = "boolean" -> IF v.b THEN "true" ELSE "false"
      [] v.t = "null" -> "null"
      [] v.t = "number" -> ToString(v.n)
      [] v.t = "bigint" -> Throws
      [] v.t = "array" ->
           LET parts == [i \in 1..Len(v.xs) |->
                           IF v.xs[i].t = "undefined" THEN "null"
                           ELSE Stringify(v.xs[i])]
           IN IF \E i \in 1..Len(parts) : parts[i] = Throws THEN Throws
              ELSE "[" \o Join(parts) \o "]"
      [] v.t = "object" ->
           LET kept == SelectSeq(v.kv, LAMBDA p : p[2].t # "undefined")
               parts == [i \in 1..Len(kept) |->
                           LET s == Stringify(kept[i][2])
                           IN IF s = Throws THEN Throws
                              ELSE Quote(kept[i][1]) \o ":" \o s]
           IN IF \E i \in 1..Len(parts) : parts[i] = Throws THEN Throws
              ELSE "{" \o Join(parts) \o "}"

\* JSON.stringify(data) for a payload (a sequence of key/value pairs)
JSONStringify(data) == Stringify(Obj(data))

\* ------------------------------------------------------- input domains
\* payloads handed to submitForm by a direct caller
Payloads ==
    { <<>>,
      << <<"email", Str("a@b.com")>> >>,
      << <<"name", Str("")>>, <<"company", JNull>>, <<"message", Undefined>> >>,
      << <<"interests", Arr(<<Str("coding"), Str("design")>>)>>,
         <<"newsletter", Bool(TRUE)>> >>,
      << <<"amount", BigInt>> >> }

\* apiKey?: string
ApiKeys == {Undefined, Str(""), Str("k1")}

\* HTTP statuses the backend answers with
Statuses == {200, 201, 401, 500}

ParseFail == [t |-> "unparseable"]

\* response bodies: what response.json() yields (ParseFail: it rejects)
Bodies ==
    { ParseFail,
      JNull,
      Str("OK"),
      [x \in {} |-> Undefined],
      [submissionId |-> Str("s1")],
      [message |-> Str("Invalid API key"), error |-> Str("Unauthorized")],
      [message |-> Str(""), error |-> Str("Bad request")],
      [message |-> Str("API key required"),
       signupUrl |-> Str("https://formflow.sh/signup")],
      [submissionId |-> Str("s2"), message |-> Str("m"), error |-> JNull,
       signupUrl |-> Str("u")] }

Responses == [status : Statuses, body : Bodies]

\* what fetch() rejects with: an Error, or any other thrown value
Rejections == {Error("TypeError", "Network error"), Str("Unknown error"), Str("boom")}

\* ------------------------------------------------------------ utils/api
FORMFLOW_API_URL == "https://formflow.sh"

\* ResponseOk taking every status below 500 for a success
ResponseOkBelow500(response) == response.status < 500

\* response.ok
ResponseOk(response) == response.status >= 200 /\ response.status <= 299

DevModeResult ==
    [success |-> TRUE,
     message |-> Str("Development mode - submission logged to console")]

\* Request with the credential in the query string instead of the header
RequestKeyInQuery(data, apiKey) ==
    [url |-> FORMFLOW_API_URL \o "/api/submit?apiKey=" \o apiKey.s,
     method |-> "POST",
     headers |-> [ContentType |-> "application/json"],
     body |-> JSONStringify(data)]

\* the fetch() call of submitForm: URL and init object
Request(data, apiKey) ==
    [url |-> FORMFLOW_API_URL \o "/api/submit",
     method |-> "POST",
     headers |-> [ContentType |-> "application/json", XFormFlowAPIKey |-> apiKey.s],
     body |-> JSONStringify(data)]

\* CatchResult reporting whatever was thrown, Error or not
CatchResultAnyThrown(error) ==
    [success |-> FALSE,
     message |-> Str("Failed to submit form"),
     error |-> IF InstanceOfError(error) THEN Str(error.message) ELSE error]

\* the catch block
CatchResult(error) ==
    [success |-> FALSE,
     message |-> Str("Failed to submit form"),
     error |-> IF InstanceOfError(error) THEN Str(error.message)
               ELSE Str("Unknown error")]

\* RejectedResult falling back only when the message is missing (`??`)
RejectedResultNullish(result) ==
    [success |-> FALSE,
     message |-> IF Get(result, "message").t \in {"undefined", "null"}
                 THEN Str("Submission failed")
                 ELSE Get(result, "message"),
     error |-> Get(result, "error"),
     signupUrl |-> Get(result, "signupUrl")]

\* the `!response.ok` branch
RejectedResult(result) ==
    [success |-> FALSE,
     message |-> IF Truthy(Get(result, "message")) THEN Get(result, "message")
                 ELSE Str("Submission failed"),
     error |-> Get(result, "error"),
     signupUrl |-> Get(result, "signupUrl")]

\* AcceptedResult with an empty identifier in place of a missing one
AcceptedResultDefaultsId(result) ==
    [success |-> TRUE,
     message |-> Str("Form submitted successfully"),
     submissionId |-> IF Truthy(Get(result, "submissionId"))
                      THEN Get(result, "submissionId") ELSE Str("")]

\* the final return
AcceptedResult(result) ==
    [success |-> TRUE,
     message |-> Str("Form submitted successfully"),
     submissionId |-> Get(result, "submissionId")]

\* reading a property of null throws a TypeError (JSON never yields undefined)
NullRead(key) ==
    Error("TypeError", "Cannot read properties of null (reading '" \o key \o "')")

NoThrow == [t |-> "none"]

\* what is thrown after `await fetch(...)` resolved with `response`: by
\* response.json() on a body that is no JSON, by result.message or
\* result.submissionId on a null result; NoThrow otherwise
ThrownAfterFetch(response) ==
    LET result == response.body IN
    IF result = ParseFail THEN Error("SyntaxError", "Unexpected token < in JSON")
    ELSE IF result = JNull
    THEN IF ~ResponseOk(response) THEN NullRead("message")
         ELSE NullRead("submissionId")
    ELSE NoThrow

\* everything after `await fetch(...)` resolved with `response`:
\* response.json(), the `!response.ok` branch, the final return, the catch
AfterFetch(response) ==
    LET result == response.body IN
    IF ThrownAfterFetch(response) # NoThrow
    THEN CatchResult(ThrownAfterFetch(response))
    ELSE IF ~ResponseOk(response) THEN RejectedResult(result)
    ELSE AcceptedResult(result)

\* ------------------------------------------------- hooks/useFormFlow domains
Fields == {"email", "name"}
\* registration order of the fields (key order of the values object)
FieldOrder == <<"email", "name">>
\* what the user types into each field
Typed == [email |-> {"", "a@b.com"}, name |-> {"Ann"}]

\* an object of field values is a function from the fields it holds
NoValues == [f \in {} |-> ""]

\* options of useFormFlow: apiKey, the callbacks (supplied or not), and the
\* engine's own: defaultValues and the rules given to register()
Configs ==
    [apiKey : {Undefined, Str("k1")},
     defaultValues : {NoValues, [f \in Fields |-> ""]},
     required : {{"email"}},
     onSuccess : {TRUE},
     onError : {TRUE}]
    \cup
    { [apiKey |-> Str("k1"), defaultValues |-> NoValues, required |-> {},
       onSuccess |-> FALSE, onError |-> FALSE] }

\* what a caller-supplied callback does: return, or throw a value
Returns == [t |-> "returns"]
\* the outcomes tried at each call site
OnSuccessOutcomes == {Returns, Error("Error", "callback failed")}
OnErrorOutcomes == {Returns, Str("oops")}
OnCaughtOutcomes == {Returns, Error("Error", "callback failed")}

\* the responses the backend gives in the hook's runs
HookResponses ==
    { [status |-> 200, body |-> [submissionId |-> Str("s1")]],
      [status |-> 401, body |-> [message |-> Str("Invalid API key"),
                                 error |-> Str("Unauthorized")]],
      [status |-> 201, body |-> ParseFail] }
HookRejections == {Error("TypeError", "Network error")}

\* the values object as submitForm's payload
Payload(values) ==
    LET held == SelectSeq(FieldOrder, LAMBDA f : f \in DOMAIN values)
    IN [i \in 1..Len(held) |-> <<held[i], Str(values[held[i]])>>]

\* ------------------------------------------------------ utils/validation
\* A string under validation is the sequence of its characters, Text(cs);
\* a number in a rule is Num(n).
Text(cs) == [t |-> "string", cs |-> cs]
Num(n) == [t |-> "number", n |-> n]
\* HasText taking the empty string for a value too
IsAnyString(v) == v.t = "string"
\* `value && ...`: a string other than the empty one
HasText(v) == v.t = "string" /\ v.cs # <<>>
\* `rules.minLength && ...`: a number other than 0
NonZero(v) == v.t = "number" /\ v.n # 0

\* the characters \s matches and trim() strips
WhiteSpace == {" ", "\t"}
\* the characters \d matches
Digits == {"1", "2"}

Least(S) == CHOOSE x \in S : \A y \in S : x <= y
Greatest(S) == CHOOSE x \in S : \A y \in S : x >= y

\* Trim stripping blanks but no other white space
TrimBlanks(cs) ==
    LET kept == {i \in 1..Len(cs) : cs[i] # " "}
    IN IF kept = {} THEN <<>> ELSE SubSeq(cs, Least(kept), Greatest(kept))

\* String.prototype.trim
Trim(cs) ==
    LET kept == {i \in 1..Len(cs) : cs[i] \notin WhiteSpace}
    IN IF kept = {} THEN <<>> ELSE SubSeq(cs, Least(kept), Greatest(kept))

\* EmailRegexTest letting further '@' into the three runs
EmailRegexTestAnyAt(cs) ==
    \E i, j \in 1..Len(cs) :
        /\ 1 < i /\ i + 1 < j /\ j < Len(cs)
        /\ cs[i] = "@"
        /\ cs[j] = "."
        /\ \A k \in 1..Len(cs) : cs[k] \notin WhiteSpace

\* /^[^\s@]+@[^\s@]+\.[^\s@]+$/.test(cs): an '@' at i and a '.' at j split
\* cs into three non-empty runs of characters that are neither white space
\* nor '@'
EmailRegexTest(cs) ==
    \E i, j \in 1..Len(cs) :
        /\ 1 < i /\ i + 1 < j /\ j < Len(cs)
        /\ cs[i] = "@"
        /\ cs[j] = "."
        /\ \A k \in 1..Len(cs) \ {i} : cs[k] \notin WhiteSpace \cup {"@"}

\* the repetition count of /^[\d\s\-+()]{10,}$/
PhoneMinLength == 10
\* PhoneClass with the blank for its only white space
PhoneClassBlankOnly == Digits \cup {" ", "-", "+", "(", ")"}
\* the character class [\d\s\-+()]
PhoneClass == Digits \cup WhiteSpace \cup {"-", "+", "(", ")"}
\* /^[\d\s\-+()]{10,}$/.test(cs)
PhoneRegexTest(cs) ==
    /\ Len(cs) >= PhoneMinLength
    /\ \A k \in 1..Len(cs) : cs[k] \in PhoneClass

\* A caller-supplied RegExp: a run of character classes, each matching one
\* character, with or without the anchors ^ and $ and the flag g.
RegExp(classes, anchorStart, anchorEnd, global) ==
    [t |-> "RegExp", classes |-> classes, anchorStart |-> anchorStart,
     anchorEnd |-> anchorEnd, global |-> global]
\* the pattern matches the characters of cs that follow the first p
MatchesAt(re, cs, p) ==
    /\ p + Len(re.classes) <= Len(cs)
    /\ \A i \in 1..Len(re.classes) : cs[p + i] \in re.classes[i]
    /\ re.anchorStart => p = 0
    /\ re.anchorEnd => p + Len(re.classes) = Len(cs)
\* RegExp.prototype.test: a global pattern searches from its lastIndex and
\* leaves the end of the match there (0 after a failure); another pattern
\* searches from the start and leaves lastIndex alone
RegExpTest(re, li, cs) ==
    LET from == IF re.global THEN li ELSE 0
        found == {p \in from..Len(cs) : MatchesAt(re, cs, p)}
    IN [matched |-> found # {},
        lastIndex |-> IF ~re.global THEN li
                      ELSE IF found = {} THEN 0
                      ELSE Least(found) + Len(re.classes)]

\* MessageOr falling back only when no message is given (`??`)
MessageUnlessAbsent(r, fallback) ==
    IF r.message # Undefined THEN r.message ELSE Str(fallback)

\* `rules.message || fallback`
MessageOr(r, fallback) == IF Truthy(r.message) THEN r.message ELSE Str(fallback)
Invalid(message) == [valid |-> FALSE, message |-> message]
Valid == [valid |-> TRUE]

\* validateField(value, rules) with rules.pattern.lastIndex at li: the
\* result, and the lastIndex the call leaves
ValidateField(v, r, li) ==
    LET tested == RegExpTest(r.pattern, li, v.cs)
        kept(result) == [result |-> result, lastIndex |-> li]
    IN
    IF Truthy(r.required) /\ (v.t # "string" \/ Trim(v.cs) = <<>>)
    THEN kept(Invalid(MessageOr(r, "This field is required")))
    ELSE IF HasText(v) /\ NonZero(r.minLength) /\ Len(v.cs) < r.minLength.n
    THEN kept(Invalid(MessageOr(r,
            "Minimum " \o ToString(r.minLength.n) \o " characters required")))
    ELSE IF HasText(v) /\ NonZero(r.maxLength) /\ Len(v.cs) > r.maxLength.n
    THEN kept(Invalid(MessageOr(r,
            "Maximum " \o ToString(r.maxLength.n) \o " characters allowed")))
    ELSE IF Truthy(r.email) /\ HasText(v) /\ ~EmailRegexTest(v.cs)
    THEN kept(Invalid(MessageOr(r, "Invalid email address")))
    ELSE IF r.pattern # Undefined /\ HasText(v)
    THEN IF tested.matched
         THEN [result |-> Valid, lastIndex |-> tested.lastIndex]
         ELSE [result |-> Invalid(MessageOr(r, "Invalid format")),
               lastIndex |-> tested.lastIndex]
    ELSE kept(Valid)

\* validateEmail(email)
ValidateEmail(cs) == EmailRegexTest(cs)
\* validatePhone(phone)
ValidatePhone(cs) == PhoneRegexTest(cs)

\* ----------------------------------------------- utils/validation, inputs
\* the strings of at most n characters from chars
Texts(chars, n) == UNION {[1..k -> chars] : k \in 0..n}
Repeat(c, n) == [i \in 1..n |-> c]

FieldChars == {"a", " ", "\t", "@", "."}
\* values given to validateField, `undefined as any` and `null as any`
\* among them
Values ==
    {Undefined, JNull}
    \cup {Text(cs) : cs \in Texts(FieldChars, MaxLen)}
    \cup {Text(<<"a", "@", "a", ".", "a">>), Text(<<"a", "a", "@", "a", ".">>)}

\* the ValidationRule objects: an absent rule is Undefined
NoRules ==
    [required |-> Undefined, minLength |-> Undefined, maxLength |-> Undefined,
     email |-> Undefined, pattern |-> Undefined, message |-> Undefined]
RuleSets ==
    [required : {Undefined, Bool(FALSE), Bool(TRUE)},
     minLength : {Undefined, Num(0), Num(3)},
     maxLength : {Undefined, Num(0), Num(1)},
     email : {Undefined, Bool(TRUE)},
     pattern : {Undefined,
                RegExp(<<{"a"}>>, TRUE, TRUE, FALSE),      \* /^a$/
                RegExp(<<{"a"}>>, FALSE, FALSE, TRUE)},    \* /a/g
     message : {Undefined, Str(""), Str("Custom")}]

EmailChars == {"a", "@", ".", " "}
\* values given to validateEmail and to validateField under {email: true}
EmailValues == {Text(cs) : cs \in Texts(EmailChars, MaxEmailLen)}
EmailOnly == [NoRules EXCEPT !.email = Bool(TRUE)]

PhoneChars == {"1", "a", " ", "\t", "-", "+", "(", ")"}
\* values given to validatePhone: a character, seven or eight digits, and
\* a tail of any characters; and the empty string
PhoneValues ==
    {Text(<<>>)}
    \cup {Text(<<c>> \o Repeat("1", n) \o tail) :
            c \in PhoneChars, n \in {7, 8}, tail \in Texts(PhoneChars, MaxTail)}

\* ------------------------------------------- components/FormFlow, templates
\* Field values are strings held as character sequences (Text); on their
\* way into submitForm's payload they become the strings JSON.stringify
\* knows.
RECURSIVE Concat(_)
Concat(cs) == IF cs = <<>> THEN "" ELSE Head(cs) \o Concat(Tail(cs))

RECURSIVE ToJs(_)
ToJs(v) ==
    IF v.t = "string" THEN Str(Concat(v.cs))
    ELSE IF v.t = "array" THEN Arr([i \in 1..Len(v.xs) |-> ToJs(v.xs[i])])
    ELSE v

\* the collected data object as submitForm's payload
ToPayload(data) == [i \in 1..Len(data) |-> <<data[i][1], ToJs(data[i][2])>>]

\* data[key]
Lookup(data, key) ==
    IF \E i \in 1..Len(data) : data[i][1] = key
    THEN data[CHOOSE i \in 1..Len(data) : data[i][1] = key][2]
    ELSE Undefined

\* data[key] = v: a new key goes last, a known one keeps its place
Put(data, key, v) ==
    IF \E i \in 1..Len(data) : data[i][1] = key
    THEN [i \in 1..Len(data) |-> IF data[i][1] = key THEN <<key, v>> ELSE data[i]]
    ELSE Append(data, <<key, v>>)

\* `if (data[key])` for what the data object holds: an array, or a string
\* other than the empty one
Held(v) == v.t = "array" \/ HasText(v)

\* one turn of formDataObj.forEach((value, key) => ...)
CollectEntry(data, key, v) ==
    LET cur == Lookup(data, key) IN
    IF Held(cur)
    THEN IF cur.t = "array" THEN Put(data, key, Arr(Append(cur.xs, v)))
         ELSE Put(data, key, Arr(<<cur, v>>))
    ELSE Put(data, key, v)

RECURSIVE CollectFrom(_, _)
CollectFrom(data, es) ==
    IF es = <<>> THEN data
    ELSE CollectFrom(CollectEntry(data, Head(es)[1], Text(Head(es)[2])), Tail(es))

\* new FormData(form) folded into the data object
Collect(es) == CollectFrom(<<>>, es)

\* A template's controls in document order.  kind says what validateForm
\* asks of the control: "text" a non-blank value, "email" and "phone" a
\* non-blank value the validator accepts, "min" a non-blank value of at least
\* min characters once trimmed, "choice" a non-empty value, "rating" and
\* "services" (hidden inputs fed from the template's state) a rating and a
\* non-empty selection, "optional" nothing.
Control(name, kind, min, missing, invalid) ==
    [name |-> name, kind |-> kind, min |-> min, missing |-> missing,
     invalid |-> invalid]

EmailControl ==
    Control("email", "email", 0, "Email is required",
            "Please enter a valid email address")

ContactFormControls ==
    << Control("name", "text", 0, "Name is required", ""),
       EmailControl,
       Control("message", "min", 10, "Message is required",
               "Message must be at least 10 characters") >>

NewsletterFormControls == << EmailControl >>

FeedbackFormControls ==
    << Control("rating", "rating", 0, "Please select a rating", ""),
       Control("feedback", "optional", 0, "", "") >>

BookingFormControls ==
    << Control("name", "text", 0, "Name is required", ""),
       EmailControl,
       Control("phone", "phone", 0, "Phone number is required",
               "Please enter a valid phone number"),
       Control("service", "choice", 0, "Please select a service", ""),
       Control("date", "choice", 0, "Please select a date", ""),
       Control("time", "choice", 0, "Please select a time", ""),
       Control("notes", "optional", 0, "", "") >>

SupportTicketFormControls ==
    << Control("name", "text", 0, "Name is required", ""),
       EmailControl,
       Control("subject", "min", 5, "Subject is required",
               "Subject must be at least 5 characters"),
       Control("category", "choice", 0, "Please select a category", ""),
       Control("priority", "choice", 0, "Please select a priority", ""),
       Control("description", "min", 20, "Description is required",
               "Please provide more details (at least 20 characters)") >>

QuoteRequestFormControls ==
    << Control("name", "text", 0, "Name is required", ""),
       EmailControl,
       Control("company", "text", 0, "Company name is required", ""),
       Control("phone", "optional", 0, "", ""),
       Control("services", "services", 0, "Please select at least one service", ""),
       Control("budget", "optional", 0, "", ""),
       Control("timeline", "optional", 0, "", ""),
       Control("description", "min", 20, "Please describe your project",
               "Please provide more details (at least 20 characters)") >>

Templates == {"contact", "newsletter", "feedback", "booking", "ticket", "quote"}
\* FormFlow mounted with children of the caller's own
NoTemplate == "none"

ControlsOf(template) ==
    CASE template = "contact" -> ContactFormControls
      [] template = "newsletter" -> NewsletterFormControls
      [] template = "feedback" -> FeedbackFormControls
      [] template = "booking" -> BookingFormControls
      [] template = "ticket" -> SupportTicketFormControls
      [] template = "quote" -> QuoteRequestFormControls
      [] OTHER -> <<>>

\* selectedServices.join(', ')
RECURSIVE JoinChars(_)
JoinChars(xs) ==
    IF xs = <<>> THEN <<>>
    ELSE IF Len(xs) = 1 THEN xs[1]
    ELSE xs[1] \o <<",", " ">> \o JoinChars(Tail(xs))

\* the template's state before anything is chosen
NoWidget == [rating |-> JNull, services |-> <<>>]

\* the value attribute of a hidden input: `rating || ''`, the joined services
HiddenValue(kind, w) ==
    IF kind = "rating"
    THEN IF w.rating = JNull \/ w.rating.n = 0 THEN <<>> ELSE <<ToString(w.rating.n)>>
    ELSE JoinChars(w.services)

\* validateForm's verdict on one control: its message, or "" when it passes
ControlMessage(c, data, w) ==
    LET v == Lookup(data, c.name)
        blank == v.t # "string" \/ Trim(v.cs) = <<>>
    IN CASE c.kind = "text" -> IF blank THEN c.missing ELSE ""
         [] c.kind = "email" ->
              IF blank THEN c.missing
              ELSE IF ~ValidateEmail(v.cs) THEN c.invalid ELSE ""
         [] c.kind = "phone" ->
              IF blank THEN c.missing
              ELSE IF ~ValidatePhone(v.cs) THEN c.invalid ELSE ""
         [] c.kind = "min" ->
              IF blank THEN c.missing
              ELSE IF Len(Trim(v.cs)) < c.min THEN c.invalid ELSE ""
         [] c.kind = "choice" -> IF ~Held(v) THEN c.missing ELSE ""
         [] c.kind = "rating" -> IF w.rating = JNull THEN c.missing ELSE ""
         [] c.kind = "services" -> IF w.services = <<>> THEN c.missing ELSE ""
         [] OTHER -> ""

\* validateForm: the newErrors object
ValidateForm(template, data, w) ==
    LET cs == ControlsOf(template)
        failing == {i \in 1..Len(cs) : ControlMessage(cs[i], data, w) # ""}
    IN [n \in {cs[i].name : i \in failing} |->
           ControlMessage(cs[CHOOSE i \in failing : cs[i].name = n], data, w)]

\* what the template's handleSubmit writes into the data object
Enrich(template, data, w) ==
    CASE template = "feedback" -> Put(data, "rating", w.rating)
      [] template = "quote" ->
           Put(data, "services",
               Arr([i \in 1..Len(w.services) |-> Text(w.services[i])]))
      [] OTHER -> data

\* ------------------------------------ components/FormFlow, templates: inputs
\* what is typed into (or chosen in) a control, by what validateForm asks
\* of it; a hidden input shows the template's state
ControlValues(c, w) ==
    CASE c.kind = "text" -> {<<" ">>, <<"A", "n", "n">>}
      [] c.kind = "email" -> {<<>>, <<"a", "@">>, <<"a", "@", "a", ".", "a">>}
      [] c.kind = "phone" -> {<<>>, <<"1", "2">>, Repeat("1", PhoneMinLength)}
      [] c.kind = "min" ->
           {<<>>, <<" ">> \o Repeat("a", c.min - 1) \o <<" ">>, Repeat("a", c.min)}
      [] c.kind = "choice" -> {<<>>, <<"x">>}
      [] c.kind = "optional" -> {<<>>}
      [] OTHER -> {HiddenValue(c.kind, w)}

RECURSIVE Fill(_, _)
\* the ways of filling in the controls cs, in document order
Fill(cs, w) ==
    IF cs = <<>> THEN {<<>>}
    ELSE {<< <<Head(cs).name, v>> >> \o rest :
             v \in ControlValues(Head(cs), w), rest \in Fill(Tail(cs), w)}

\* the template's state: a rating, the selected services
Widgets(template) ==
    CASE template = "feedback" -> {NoWidget, [rating |-> Num(5), services |-> <<>>]}
      [] template = "quote" -> {NoWidget, [rating |-> JNull, services |-> << <<"d">> >>]}
      [] OTHER -> {NoWidget}

\* the entries of a form of the caller's own: checkboxes and inputs that
\* share names, some left empty
EntryNames == {"a", "b"}
EntryValues == {<<>>, <<"x">>}
OwnEntries == UNION {[1..k -> EntryNames \X EntryValues] : k \in 0..MaxEntries}

\* two forms of the caller's own that repeat or mix names
SharedNameEntries ==
    { << <<"a", <<>>>>, <<"a", <<"x">>>> >>,
      << <<"a", <<"x">>>>, <<"b", <<>>>> >> }

\* a mounted form as the user left it: [entries, widget].  Every way of
\* filling in a form of the caller's own is tried without a credential
\* (where nothing but the collected data depends on the entries), two of
\* them with one.
FormStates(p) ==
    IF p.template = NoTemplate
    THEN [entries : IF Truthy(p.apiKey) THEN SharedNameEntries ELSE OwnEntries,
          widget : {NoWidget}]
    ELSE UNION {[entries : Fill(ControlsOf(p.template), w), widget : {w}] :
                   w \in Widgets(p.template)}

\* the props: a template with the caller's callbacks, or FormFlow itself
\* with the caller's onSubmit, onSuccess and onError (each supplied or not)
FormConfigs ==
    [template : Templates, apiKey : {Undefined, Str("k1")},
     onSubmit : {FALSE}, onSuccess : {TRUE}, onError : {TRUE}]
    \cup
    [template : {NoTemplate}, apiKey : {Str("k1")},
     onSubmit : BOOLEAN, onSuccess : {TRUE}, onError : {TRUE}]
    \cup
    { [template |-> NoTemplate, apiKey |-> Undefined, onSubmit |-> FALSE,
       onSuccess |-> FALSE, onError |-> FALSE] }

FormResponses ==
    { [status |-> 200, body |-> [submissionId |-> Str("s1")]],
      [status |-> 401, body |-> [message |-> Str("Invalid API key"),
                                 error |-> Str("Unauthorized")]],
      [status |-> 401, body |-> [message |-> Str("API key required"),
                                 signupUrl |-> Str("https://formflow.sh/signup")]] }
FormRejections == {Error("TypeError", "Network error")}

\* what the caller's callbacks do at each call site
OnSubmitOutcomes == {Returns, Error("Error", "not now"), Str("oops")}
CallbackOutcomes == {Returns, Error("Error", "callback failed")}
CaughtOutcomes == {Returns, Str("oops")}

\* ---------------------------------------------------------------- state
VARIABLES
    calls,        \* submitForm invocations, in call order:
                  \* [caller, data, apiKey, pc, response, thrown, result]
    console,      \* console.log calls: [call, args]
    network,      \* fetch calls: [call, request]
    options,      \* the options useFormFlow was called with
    formValues,   \* the engine's field values (getValues())
    errors,       \* formState.errors: the fields with an error
    isSubmitting, \* formState.isSubmitting
    attempts,     \* handleSubmit invocations: [pc, data, call, thrown, promise]
    events,       \* callback invocations (with what the callback did) and
                  \* resets, in order
    value,        \* the value a caller of utils/validation holds
    rules,        \* the ValidationRule object the caller holds
    lastIndex,    \* rules.pattern.lastIndex
    outputs,      \* what the validators returned, in call order: [fn, result]
    props,        \* the mounted form: [template, apiKey, onSuccess, onError]
    entries,      \* the form's controls in document order: <<name, value>>
    widget,       \* the template's own input state: [rating, services]
    tplErrors,    \* the template's `errors` state: field -> message
    tplSubmitting,    \* the template's `isSubmitting` state
    ffSubmitting,     \* FormFlow's `isSubmitting` state
    showSuccessModal, \* FormFlow's `showSuccessModal` state
    showSignupPrompt, \* FormFlow's `showSignupPrompt` state
    submits,      \* FormFlow.handleSubmit invocations: [pc, data, call, thrown]
    formEvents    \* what FormFlow called, in order: onSubmit, onSuccess,
                  \* onError (with what the callback did) and form.reset()

apiVars == <<calls, console, network>>
hookVars == <<options, formValues, errors, isSubmitting, attempts, events>>
valVars == <<value, rules, lastIndex, outputs>>
formVars == <<props, entries, widget, tplErrors, tplSubmitting, ffSubmitting,
              showSuccessModal, showSignupPrompt, submits, formEvents>>
vars == <<calls, console, network, options, formValues, errors, isSubmitting,
          attempts, events, value, rules, lastIndex, outputs, props, entries,
          widget, tplErrors, tplSubmitting, ffSubmitting, showSuccessModal,
          showSignupPrompt, submits, formEvents>>

NoResponse == [t |-> "none"]
NoResult == [t |-> "none"]

CallIds == 1..Len(calls)
AttemptIds == 1..Len(attempts)

\* ------------------------------------------------------ utils/api, steps
\* what JSON.stringify throws on a payload it cannot serialise
StringifyError == Error("TypeError", "Do not know how to serialize a BigInt")

\* the synchronous part of submitForm(data, apiKey), up to its first await
\* or its return; `caller` is 0 for a direct caller, else the hook's attempt
SubmitForm(data, apiKey, caller) ==
    LET id == Len(calls) + 1
        call == [caller |-> caller, data |-> data, apiKey |-> apiKey,
                 pc |-> "done", response |-> NoResponse, thrown |-> NoThrow,
                 result |-> NoResult]
    IN
    IF ~Truthy(apiKey)
    THEN /\ console' = Append(console,
                [call |-> id, args |-> <<"[FormFlow Dev Mode] Form submission:", data>>])
         /\ calls' = Append(calls, [call EXCEPT !.result = DevModeResult])
         /\ UNCHANGED network
    ELSE IF JSONStringify(data) = Throws
    THEN /\ calls' = Append(calls,
                [call EXCEPT !.thrown = StringifyError,
                             !.result = CatchResult(StringifyError)])
         /\ UNCHANGED <<console, network>>
    ELSE /\ network' = Append(network, [call |-> id, request |-> Request(data, apiKey)])
         /\ calls' = Append(calls, [call EXCEPT !.pc = "fetching"])
         /\ UNCHANGED console

\* a direct caller invokes submitForm
CallSubmitForm(data, apiKey) ==
    /\ Len(calls) < MaxCalls
    /\ SubmitForm(data, apiKey, 0)
    /\ UNCHANGED <<hookVars, valVars, formVars>>

\* FetchRejects retrying the request once before giving up
FetchRejectsRetries(c, thrown) ==
    /\ calls[c].pc = "fetching"
    /\ IF Cardinality({i \in 1..Len(network) : network[i].call = c}) < 2
       THEN /\ network' = Append(network,
                   [call |-> c, request |-> Request(calls[c].data, calls[c].apiKey)])
            /\ UNCHANGED <<calls, console, hookVars, valVars, formVars>>
       ELSE /\ calls' = [calls EXCEPT ![c].pc = "done", ![c].thrown = thrown,
                                      ![c].result = CatchResult(thrown)]
            /\ UNCHANGED <<console, network, hookVars, valVars, formVars>>

\* the fetch promise rejects: the catch block returns
FetchRejects(c, thrown) ==
    /\ calls[c].pc = "fetching"
    /\ calls' = [calls EXCEPT ![c].pc = "done", ![c].thrown = thrown,
                              ![c].result = CatchResult(thrown)]
    /\ UNCHANGED <<console, network, hookVars, valVars, formVars>>

\* the fetch promise resolves with a response; response.json() is awaited
FetchResolves(c, response) ==
    /\ calls[c].pc = "fetching"
    /\ calls' = [calls EXCEPT ![c].pc = "parsing", ![c].response = response]
    /\ UNCHANGED <<console, network, hookVars, valVars, formVars>>

\* response.json() settles and submitForm returns
JsonSettles(c) ==
    /\ calls[c].pc = "parsing"
    /\ calls' = [calls EXCEPT ![c].pc = "done",
                              ![c].thrown = ThrownAfterFetch(calls[c].response),
                              ![c].result = AfterFetch(calls[c].response)]
    /\ UNCHANGED <<console, network, hookVars, valVars, formVars>>

\* ------------------------------------------------- hooks/useFormFlow, steps
\* An attempt's continuation that is ready to run is a microtask: the event
\* loop runs it before any further user event or network completion.
Ready(a) ==
    \/ attempts[a].pc \in {"validate", "onValid", "reset", "catch", "finish"}
    \/ attempts[a].pc = "await" /\ calls[attempts[a].call].pc = "done"
Busy == \E a \in AttemptIds : Ready(a)

\* the user edits a field (setValue / an input's onChange)
SetValue(f, v) ==
    /\ ~Busy
    /\ formValues' = [x \in DOMAIN formValues \cup {f} |->
                         IF x = f THEN v ELSE formValues[x]]
    /\ UNCHANGED <<apiVars, valVars, formVars, options, errors, isSubmitting, attempts, events>>

\* the engine's built-in validation of the registered rules
FailingFields(values) ==
    {f \in options.required : f \notin DOMAIN values \/ values[f] = ""}

\* handleSubmit is invoked (a submit event): the engine copies the field
\* values, raises isSubmitting and starts validating
HandleSubmit ==
    /\ ~Busy
    /\ Len(attempts) < MaxSubmits
    /\ attempts' = Append(attempts,
            [pc |-> "validate", data |-> formValues, call |-> 0,
             thrown |-> NoThrow, promise |-> "pending"])
    /\ isSubmitting' = TRUE
    /\ UNCHANGED <<apiVars, valVars, formVars, options, formValues, errors, events>>

\* Validate recording the errors and calling the callback all the same
ValidateIgnoresErrors(a) ==
    /\ attempts[a].pc = "validate"
    /\ errors' = FailingFields(formValues)
    /\ attempts' = [attempts EXCEPT ![a].pc = "onValid"]
    /\ UNCHANGED <<apiVars, valVars, formVars, options, formValues, isSubmitting, events>>

\* validation ends: with errors the callback is skipped, without it is called
Validate(a) ==
    /\ attempts[a].pc = "validate"
    /\ errors' = FailingFields(formValues)
    /\ attempts' = [attempts EXCEPT ![a].pc =
            IF FailingFields(formValues) = {} THEN "onValid" ELSE "finish"]
    /\ UNCHANGED <<apiVars, valVars, formVars, options, formValues, isSubmitting, events>>

\* OnValid dropping a submit made while another submission is in flight
OnValidUnlessInFlight(a) ==
    /\ attempts[a].pc = "onValid"
    /\ IF \E b \in AttemptIds \ {a} : attempts[b].pc = "await"
       THEN /\ attempts' = [attempts EXCEPT ![a].pc = "finish"]
            /\ UNCHANGED apiVars
       ELSE /\ SubmitForm(Payload(attempts[a].data), options.apiKey, a)
            /\ attempts' = [attempts EXCEPT ![a].pc = "await", ![a].call = Len(calls) + 1]
    /\ UNCHANGED <<valVars, formVars, options, formValues, errors, isSubmitting, events>>

\* OnValid lowering isSubmitting as soon as the request is on its way
OnValidEndsSubmitting(a) ==
    /\ attempts[a].pc = "onValid"
    /\ SubmitForm(Payload(attempts[a].data), options.apiKey, a)
    /\ attempts' = [attempts EXCEPT ![a].pc = "await", ![a].call = Len(calls) + 1]
    /\ isSubmitting' = FALSE
    /\ UNCHANGED <<valVars, formVars, options, formValues, errors, events>>

\* the hook's callback starts: `await submitForm(data, apiKey)`
OnValid(a) ==
    /\ attempts[a].pc = "onValid"
    /\ SubmitForm(Payload(attempts[a].data), options.apiKey, a)
    /\ attempts' = [attempts EXCEPT ![a].pc = "await", ![a].call = Len(calls) + 1]
    /\ UNCHANGED <<valVars, formVars, options, formValues, errors, isSubmitting, events>>

\* submitForm returned a success-tagged result: `onSuccess?.(data, result)`
Succeeded(a, outcome) ==
    LET result == calls[attempts[a].call].result IN
    /\ attempts[a].pc = "await"
    /\ calls[attempts[a].call].pc = "done"
    /\ result.success
    /\ IF options.onSuccess
       THEN /\ events' = Append(events, [ev |-> "onSuccess", attempt |-> a,
                                         data |-> attempts[a].data, arg |-> result,
                                         outcome |-> outcome])
            /\ attempts' = [attempts EXCEPT
                   ![a].pc = IF outcome = Returns THEN "reset" ELSE "catch",
                   ![a].thrown = IF outcome = Returns THEN NoThrow ELSE outcome]
       ELSE /\ outcome = Returns
            /\ events' = events
            /\ attempts' = [attempts EXCEPT ![a].pc = "reset"]
    /\ UNCHANGED <<apiVars, valVars, formVars, options, formValues, errors, isSubmitting>>

\* Reset clearing the errors and leaving the field values
ResetKeepsValues(a) ==
    /\ attempts[a].pc = "reset"
    /\ errors' = {}
    /\ events' = Append(events, [ev |-> "reset", attempt |-> a])
    /\ attempts' = [attempts EXCEPT ![a].pc = "finish"]
    /\ UNCHANGED <<apiVars, valVars, formVars, options, formValues, isSubmitting>>

\* Reset sparing a form that was edited after the submit
ResetUnlessEdited(a) ==
    /\ attempts[a].pc = "reset"
    /\ formValues' = IF formValues = attempts[a].data THEN options.defaultValues
                     ELSE formValues
    /\ errors' = {}
    /\ events' = Append(events, [ev |-> "reset", attempt |-> a])
    /\ attempts' = [attempts EXCEPT ![a].pc = "finish"]
    /\ UNCHANGED <<apiVars, valVars, formVars, options, isSubmitting>>

\* `form.reset()`: the field values return to the defaults, the errors go
Reset(a) ==
    /\ attempts[a].pc = "reset"
    /\ formValues' = options.defaultValues
    /\ errors' = {}
    /\ events' = Append(events, [ev |-> "reset", attempt |-> a])
    /\ attempts' = [attempts EXCEPT ![a].pc = "finish"]
    /\ UNCHANGED <<apiVars, valVars, formVars, options, isSubmitting>>

\* Failed resetting the form as the success branch does
FailedResetsForm(a, outcome) ==
    LET result == calls[attempts[a].call].result IN
    /\ attempts[a].pc = "await"
    /\ calls[attempts[a].call].pc = "done"
    /\ ~result.success
    /\ outcome = Returns
    /\ events' = Append(events, [ev |-> "onError", attempt |-> a, arg |-> result,
                                 outcome |-> outcome])
    /\ attempts' = [attempts EXCEPT ![a].pc = "finish"]
    /\ formValues' = options.defaultValues
    /\ UNCHANGED <<apiVars, valVars, formVars, options, errors, isSubmitting>>

\* submitForm returned a failure-tagged result: `onError?.(result)`
Failed(a, outcome) ==
    LET result == calls[attempts[a].call].result IN
    /\ attempts[a].pc = "await"
    /\ calls[attempts[a].call].pc = "done"
    /\ ~result.success
    /\ IF options.onError
       THEN /\ events' = Append(events, [ev |-> "onError", attempt |-> a, arg |-> result,
                                         outcome |-> outcome])
            /\ attempts' = [attempts EXCEPT
                   ![a].pc = IF outcome = Returns THEN "finish" ELSE "catch",
                   ![a].thrown = IF outcome = Returns THEN NoThrow ELSE outcome]
       ELSE /\ outcome = Returns
            /\ events' = events
            /\ attempts' = [attempts EXCEPT ![a].pc = "finish"]
    /\ UNCHANGED <<apiVars, valVars, formVars, options, formValues, errors, isSubmitting>>

\* Catch handing what was thrown to onError as it is
CatchPassesThrown(a, outcome) ==
    LET error == attempts[a].thrown IN
    /\ attempts[a].pc = "catch"
    /\ IF options.onError
       THEN /\ events' = Append(events, [ev |-> "onError", attempt |-> a,
                    arg |-> error, outcome |-> outcome])
            /\ attempts' = [attempts EXCEPT ![a].pc = "finish",
                   ![a].thrown = IF outcome = Returns THEN NoThrow ELSE outcome]
       ELSE /\ outcome = Returns
            /\ events' = events
            /\ attempts' = [attempts EXCEPT ![a].pc = "finish", ![a].thrown = NoThrow]
    /\ UNCHANGED <<apiVars, valVars, formVars, options, formValues, errors, isSubmitting>>

\* the hook's catch block: `onError?.(error instanceof Error ? error : new Error(...))`;
\* what onError throws here leaves the callback
Catch(a, outcome) ==
    LET error == attempts[a].thrown IN
    /\ attempts[a].pc = "catch"
    /\ IF options.onError
       THEN /\ events' = Append(events, [ev |-> "onError", attempt |-> a,
                    arg |-> IF InstanceOfError(error) THEN error
                            ELSE Error("Error", "Unknown error"),
                    outcome |-> outcome])
            /\ attempts' = [attempts EXCEPT ![a].pc = "finish",
                   ![a].thrown = IF outcome = Returns THEN NoThrow ELSE outcome]
       ELSE /\ outcome = Returns
            /\ events' = events
            /\ attempts' = [attempts EXCEPT ![a].pc = "finish", ![a].thrown = NoThrow]
    /\ UNCHANGED <<apiVars, valVars, formVars, options, formValues, errors, isSubmitting>>

\* Finish lowering isSubmitting only when no other attempt is unfinished
FinishWhenLast(a) ==
    /\ attempts[a].pc = "finish"
    /\ isSubmitting' = (\E b \in AttemptIds \ {a} : attempts[b].pc # "done")
    /\ attempts' = [attempts EXCEPT ![a].pc = "done",
            ![a].promise = IF attempts[a].thrown = NoThrow THEN "resolved" ELSE "rejected"]
    /\ UNCHANGED <<apiVars, valVars, formVars, options, formValues, errors, events>>

\* Finish swallowing what the callback threw
FinishResolves(a) ==
    /\ attempts[a].pc = "finish"
    /\ isSubmitting' = FALSE
    /\ attempts' = [attempts EXCEPT ![a].pc = "done", ![a].promise = "resolved"]
    /\ UNCHANGED <<apiVars, valVars, formVars, options, formValues, errors, events>>

\* the engine's handleSubmit ends: isSubmitting drops, and what the callback
\* threw is thrown again
Finish(a) ==
    /\ attempts[a].pc = "finish"
    /\ isSubmitting' = FALSE
    /\ attempts' = [attempts EXCEPT ![a].pc = "done",
            ![a].promise = IF attempts[a].thrown = NoThrow THEN "resolved" ELSE "rejected"]
    /\ UNCHANGED <<apiVars, valVars, formVars, options, formValues, errors, events>>

\* ------------------------------------------------ utils/validation, steps
\* the caller calls validateField(value, rules)
CallValidateField ==
    /\ Len(outputs) < MaxValidations
    /\ outputs' = Append(outputs,
            [fn |-> "validateField",
             result |-> ValidateField(value, rules, lastIndex).result])
    /\ lastIndex' = ValidateField(value, rules, lastIndex).lastIndex
    /\ UNCHANGED <<apiVars, hookVars, formVars, value, rules>>

\* a caller holding a string and no rules calls validateEmail(value)
CallValidateEmail ==
    /\ Len(outputs) < MaxValidations
    /\ rules = NoRules
    /\ value.t = "string"
    /\ outputs' = Append(outputs,
            [fn |-> "validateEmail", result |-> ValidateEmail(value.cs)])
    /\ UNCHANGED <<apiVars, hookVars, formVars, value, rules, lastIndex>>

\* a caller holding a string and no rules calls validatePhone(value)
CallValidatePhone ==
    /\ Len(outputs) < MaxValidations
    /\ rules = NoRules
    /\ value.t = "string"
    /\ outputs' = Append(outputs,
            [fn |-> "validatePhone", result |-> ValidatePhone(value.cs)])
    /\ UNCHANGED <<apiVars, hookVars, formVars, value, rules, lastIndex>>

\* -------------------------------------- components/FormFlow, templates: steps
SubmitIds == 1..Len(submits)
IsTemplate == props.template # NoTemplate
NoErrors == [n \in {} |-> ""]

\* the props FormFlow itself receives: a template always hands it its
\* handleSubmit, handleSuccess and handleError
HasOnSubmit == IsTemplate \/ props.onSubmit
HasOnSuccess == IsTemplate \/ props.onSuccess
HasOnError == IsTemplate \/ props.onError

\* A continuation of handleSubmit that is ready to run is a microtask: it
\* runs before any further user event or network completion.
FormReady(s) ==
    \/ submits[s].pc = "onSubmit"
    \/ submits[s].pc = "await" /\ calls[submits[s].call].pc = "done"
FormBusy == \E s \in SubmitIds : FormReady(s)

\* the hidden inputs after a render with the template's state w
Rerender(es, w) ==
    LET cs == ControlsOf(props.template) IN
    [i \in 1..Len(es) |->
        IF IsTemplate /\ cs[i].kind \in {"rating", "services"}
        THEN <<es[i][1], HiddenValue(cs[i].kind, w)>> ELSE es[i]]

\* form.reset(): the controls (none has a default value) are emptied
Cleared(es) == [i \in 1..Len(es) |-> <<es[i][1], <<>>>>]

\* `error instanceof Error ? error : new Error('Unknown error')`
AsError(thrown) ==
    IF InstanceOfError(thrown) THEN thrown ELSE Error("Error", "Unknown error")

\* the entry of the log for a call of one of FormFlow's props
Called(ev, s, arg, outcome) ==
    [ev |-> ev, submit |-> s, arg |-> arg, outcome |-> outcome]

\* the catch block and the finally block of handleSubmit, entered with
\* `thrown`: onError?.(...), then setIsSubmitting(false); `before` is what
\* the try block has logged
CatchAndFinally(s, before, thrown, outcome) ==
    /\ IF HasOnError
       THEN /\ props.onError \/ outcome = Returns
            /\ formEvents' = formEvents \o before \o
                   <<Called("onError", s, AsError(thrown), outcome)>>
            /\ submits' = [submits EXCEPT ![s].pc = "done",
                   ![s].thrown = IF outcome = Returns THEN NoThrow ELSE outcome]
       ELSE /\ outcome = Returns
            /\ formEvents' = formEvents \o before
            /\ submits' = [submits EXCEPT ![s].pc = "done", ![s].thrown = NoThrow]
    /\ tplSubmitting' = IF IsTemplate THEN FALSE ELSE tplSubmitting
    /\ ffSubmitting' = FALSE

\* a submit event reaches FormFlow.handleSubmit, which runs up to its first
\* await: setIsSubmitting(true), the FormData loop and, when there is an
\* onSubmit, its call (a template's handleSubmit validates, records the
\* errors and throws, or raises the template's isSubmitting and returns);
\* without an onSubmit, submitForm is called at once.  A template's submit
\* button is disabled while the template's isSubmitting is set.
FormHandleSubmit(outcome) ==
    LET s == Len(submits) + 1
        data == Collect(entries)
        sent == IF props.template = "quote" THEN Enrich("quote", data, widget)
                ELSE data
        newErrors == ValidateForm(props.template, sent, widget)
        thrown == IF ~IsTemplate THEN outcome
                  ELSE IF DOMAIN newErrors # {}
                  THEN Error("Error", "Validation failed")
                  ELSE Returns
        kept == IF IsTemplate /\ thrown = Returns
                THEN Enrich(props.template, sent, widget) ELSE sent
    IN
    /\ ~FormBusy
    /\ Len(submits) < MaxFormSubmits
    /\ IsTemplate => ~tplSubmitting
    /\ ffSubmitting' = TRUE
    /\ IF HasOnSubmit
       THEN /\ IsTemplate => outcome = Returns
            /\ submits' = Append(submits,
                   [pc |-> "onSubmit", data |-> kept, call |-> 0,
                    thrown |-> IF thrown = Returns THEN NoThrow ELSE thrown])
            /\ formEvents' = Append(formEvents, Called("onSubmit", s, kept, thrown))
            /\ tplErrors' = IF IsTemplate THEN newErrors ELSE tplErrors
            /\ tplSubmitting' = (IsTemplate /\ thrown = Returns)
            /\ UNCHANGED apiVars
       ELSE /\ outcome = Returns
            /\ SubmitForm(ToPayload(data), props.apiKey, s)
            /\ submits' = Append(submits,
                   [pc |-> "await", data |-> data, call |-> Len(calls) + 1,
                    thrown |-> NoThrow])
            /\ UNCHANGED <<formEvents, tplErrors, tplSubmitting>>
    /\ UNCHANGED <<hookVars, valVars, props, entries, widget, showSuccessModal,
                   showSignupPrompt>>

\* FormOnSubmitResolved going on to submitForm whatever onSubmit did
FormOnSubmitSubmitsAnyway(s) ==
    /\ submits[s].pc = "onSubmit"
    /\ SubmitForm(ToPayload(submits[s].data), props.apiKey, s)
    /\ submits' = [submits EXCEPT ![s].pc = "await", ![s].call = Len(calls) + 1]
    /\ UNCHANGED <<hookVars, valVars, props, entries, widget, tplErrors,
                   tplSubmitting, ffSubmitting, showSuccessModal,
                   showSignupPrompt, formEvents>>

\* `await onSubmit(data)` fulfilled: submitForm(data, apiKey) is called
FormOnSubmitResolved(s) ==
    /\ submits[s].pc = "onSubmit"
    /\ submits[s].thrown = NoThrow
    /\ SubmitForm(ToPayload(submits[s].data), props.apiKey, s)
    /\ submits' = [submits EXCEPT ![s].pc = "await", ![s].call = Len(calls) + 1]
    /\ UNCHANGED <<hookVars, valVars, props, entries, widget, tplErrors,
                   tplSubmitting, ffSubmitting, showSuccessModal,
                   showSignupPrompt, formEvents>>

\* `await onSubmit(data)` rejected: the catch block, then the finally block
FormOnSubmitRejected(s, outcome) ==
    /\ submits[s].pc = "onSubmit"
    /\ submits[s].thrown # NoThrow
    /\ CatchAndFinally(s, <<>>, submits[s].thrown, outcome)
    /\ UNCHANGED <<apiVars, hookVars, valVars, props, entries, widget, tplErrors,
                   showSuccessModal, showSignupPrompt>>

\* submitForm resolved with a success-tagged response: the success modal,
\* onSuccess?.(data, response) (a template's handleSuccess lowers its
\* isSubmitting, empties its errors and its own state, then calls the
\* caller's onSuccess), form.reset(); what onSuccess throws goes to the
\* catch block; the finally block
FormSucceeded(s, outcome, caught) ==
    LET response == calls[submits[s].call].result
        called == IF HasOnSuccess
                  THEN <<Called("onSuccess", s, response, outcome)>> ELSE <<>>
        w == IF IsTemplate THEN NoWidget ELSE widget
    IN
    /\ submits[s].pc = "await"
    /\ calls[submits[s].call].pc = "done"
    /\ response.success
    /\ props.onSuccess \/ outcome = Returns
    /\ showSuccessModal' = TRUE
    /\ widget' = w
    /\ tplErrors' = IF IsTemplate THEN NoErrors ELSE tplErrors
    /\ IF outcome = Returns
       THEN /\ caught = Returns
            /\ formEvents' = formEvents \o called \o <<[ev |-> "reset", submit |-> s]>>
            /\ entries' = Rerender(Cleared(entries), w)
            /\ submits' = [submits EXCEPT ![s].pc = "done"]
            /\ tplSubmitting' = IF IsTemplate THEN FALSE ELSE tplSubmitting
            /\ ffSubmitting' = FALSE
       ELSE /\ entries' = Rerender(entries, w)
            /\ CatchAndFinally(s, called, outcome, caught)
    /\ UNCHANGED <<apiVars, hookVars, valVars, props, showSignupPrompt>>

\* FormSignupPrompt reporting the response to onError as well
FormSignupPromptReports(s) ==
    LET response == calls[submits[s].call].result IN
    /\ submits[s].pc = "await"
    /\ calls[submits[s].call].pc = "done"
    /\ ~response.success
    /\ Truthy(Get(response, "signupUrl"))
    /\ showSignupPrompt' = TRUE
    /\ ffSubmitting' = FALSE
    /\ submits' = [submits EXCEPT ![s].pc = "done"]
    /\ formEvents' = IF HasOnError
                     THEN Append(formEvents, Called("onError", s, response, Returns))
                     ELSE formEvents
    /\ tplSubmitting' = IF IsTemplate THEN FALSE ELSE tplSubmitting
    /\ UNCHANGED <<apiVars, hookVars, valVars, props, entries, widget, tplErrors,
                   showSuccessModal>>

\* submitForm resolved with a failure-tagged response that carries a
\* signupUrl: the sign-up prompt; the finally block
FormSignupPrompt(s) ==
    LET response == calls[submits[s].call].result IN
    /\ submits[s].pc = "await"
    /\ calls[submits[s].call].pc = "done"
    /\ ~response.success
    /\ Truthy(Get(response, "signupUrl"))
    /\ showSignupPrompt' = TRUE
    /\ ffSubmitting' = FALSE
    /\ submits' = [submits EXCEPT ![s].pc = "done"]
    /\ UNCHANGED <<apiVars, hookVars, valVars, props, entries, widget, tplErrors,
                   tplSubmitting, showSuccessModal, formEvents>>

\* submitForm resolved with a failure-tagged response without a signupUrl:
\* onError?.(response) (a template's handleError lowers its isSubmitting
\* and calls the caller's onError); what it throws goes to the catch block;
\* the finally block
FormFailed(s, outcome, caught) ==
    LET response == calls[submits[s].call].result
        called == IF HasOnError
                  THEN <<Called("onError", s, response, outcome)>> ELSE <<>>
    IN
    /\ submits[s].pc = "await"
    /\ calls[submits[s].call].pc = "done"
    /\ ~response.success
    /\ ~Truthy(Get(response, "signupUrl"))
    /\ props.onError \/ outcome = Returns
    /\ IF outcome = Returns
       THEN /\ caught = Returns
            /\ formEvents' = formEvents \o called
            /\ submits' = [submits EXCEPT ![s].pc = "done"]
            /\ tplSubmitting' = IF IsTemplate THEN FALSE ELSE tplSubmitting
            /\ ffSubmitting' = FALSE
       ELSE CatchAndFinally(s, called, outcome, caught)
    /\ UNCHANGED <<apiVars, hookVars, valVars, props, entries, widget, tplErrors,
                   showSuccessModal, showSignupPrompt>>

\* the buttons that close the success modal and the sign-up prompt
CloseSuccessModal ==
    /\ ~FormBusy
    /\ showSuccessModal
    /\ showSuccessModal' = FALSE
    /\ UNCHANGED <<apiVars, hookVars, valVars, props, entries, widget, tplErrors,
                   tplSubmitting, ffSubmitting, showSignupPrompt, submits,
                   formEvents>>

CloseSignupPrompt ==
    /\ ~FormBusy
    /\ showSignupPrompt
    /\ showSignupPrompt' = FALSE
    /\ UNCHANGED <<apiVars, hookVars, valVars, props, entries, widget, tplErrors,
                   tplSubmitting, ffSubmitting, showSuccessModal, submits,
                   formEvents>>

\* ------------------------------------------------------- specifications
InitApi ==
    /\ calls = <<>>
    /\ console = <<>>
    /\ network = <<>>

\* no caller of utils/validation
InitNoValidation ==
    /\ value = Undefined
    /\ rules = NoRules
    /\ lastIndex = 0
    /\ outputs = <<>>

\* no form is mounted
InitNoForm ==
    /\ props = [template |-> NoTemplate, apiKey |-> Undefined, onSubmit |-> FALSE,
                onSuccess |-> FALSE, onError |-> FALSE]
    /\ entries = <<>>
    /\ widget = NoWidget
    /\ tplErrors = NoErrors
    /\ tplSubmitting = FALSE
    /\ ffSubmitting = FALSE
    /\ showSuccessModal = FALSE
    /\ showSignupPrompt = FALSE
    /\ submits = <<>>
    /\ formEvents = <<>>

Init ==
    /\ InitApi
    /\ options \in Configs
    /\ formValues = options.defaultValues
    /\ errors = {}
    /\ isSubmitting = FALSE
    /\ attempts = <<>>
    /\ events = <<>>
    /\ InitNoValidation
    /\ InitNoForm

\* the submission client under direct callers
NextApi ==
    \/ \E data \in Payloads, apiKey \in ApiKeys : CallSubmitForm(data, apiKey)
    \/ \E c \in CallIds, thrown \in Rejections : FetchRejects(c, thrown)
    \/ \E c \in CallIds, response \in Responses : FetchResolves(c, response)
    \/ \E c \in CallIds : JsonSettles(c)

SpecApi == Init /\ [][NextApi]_vars

\* the hook: user events and network completions run only when no
\* continuation is ready
Next ==
    \/ \E f \in Fields : \E v \in Typed[f] : SetValue(f, v)
    \/ HandleSubmit
    \/ \E a \in AttemptIds : Validate(a)
    \/ \E a \in AttemptIds : OnValid(a)
    \/ \E a \in AttemptIds, outcome \in OnSuccessOutcomes : Succeeded(a, outcome)
    \/ \E a \in AttemptIds : Reset(a)
    \/ \E a \in AttemptIds, outcome \in OnErrorOutcomes : Failed(a, outcome)
    \/ \E a \in AttemptIds, outcome \in OnCaughtOutcomes : Catch(a, outcome)
    \/ \E a \in AttemptIds : Finish(a)
    \/ ~Busy /\ \E c \in CallIds, thrown \in HookRejections : FetchRejects(c, thrown)
    \/ ~Busy /\ \E c \in CallIds, response \in HookResponses : FetchResolves(c, response)
    \/ ~Busy /\ \E c \in CallIds : JsonSettles(c)

Spec == Init /\ [][Next]_vars

\* the callers of utils/validation: a value and a rule object, or a bare
\* string; no form is mounted
InitValidation ==
    /\ InitApi
    /\ options = [apiKey |-> Undefined, defaultValues |-> NoValues, required |-> {},
                  onSuccess |-> FALSE, onError |-> FALSE]
    /\ formValues = options.defaultValues
    /\ errors = {}
    /\ isSubmitting = FALSE
    /\ attempts = <<>>
    /\ events = <<>>
    /\ \/ value \in Values /\ rules \in RuleSets
       \/ value \in PhoneValues /\ rules = NoRules
       \/ value \in EmailValues /\ rules \in {NoRules, EmailOnly}
    /\ lastIndex = 0
    /\ outputs = <<>>
    /\ InitNoForm

NextValidation ==
    \/ CallValidateField
    \/ CallValidateEmail
    \/ CallValidatePhone

SpecValidation == InitValidation /\ [][NextValidation]_vars

\* a mounted form (a template, or FormFlow around the caller's own
\* controls) as the user filled it in; the hook and the validators have no
\* caller of their own
InitForm ==
    /\ InitApi
    /\ options = [apiKey |-> Undefined, defaultValues |-> NoValues, required |-> {},
                  onSuccess |-> FALSE, onError |-> FALSE]
    /\ formValues = options.defaultValues
    /\ errors = {}
    /\ isSubmitting = FALSE
    /\ attempts = <<>>
    /\ events = <<>>
    /\ InitNoValidation
    /\ props \in FormConfigs
    /\ \E st \in FormStates(props) :
           entries = st.entries /\ widget = st.widget
    /\ tplErrors = NoErrors
    /\ tplSubmitting = FALSE
    /\ ffSubmitting = FALSE
    /\ showSuccessModal = FALSE
    /\ showSignupPrompt = FALSE
    /\ submits = <<>>
    /\ formEvents = <<>>

\* user events and network completions run only when no continuation of
\* handleSubmit is ready
NextForm ==
    \/ \E outcome \in OnSubmitOutcomes : FormHandleSubmit(outcome)
    \/ \E s \in SubmitIds : FormOnSubmitResolved(s)
    \/ \E s \in SubmitIds, outcome \in CaughtOutcomes : FormOnSubmitRejected(s, outcome)
    \/ \E s \in SubmitIds, outcome \in CallbackOutcomes, caught \in CaughtOutcomes :
           FormSucceeded(s, outcome, caught)
    \/ \E s \in SubmitIds : FormSignupPrompt(s)
    \/ \E s \in SubmitIds, outcome \in CallbackOutcomes, caught \in CaughtOutcomes :
           FormFailed(s, outcome, caught)
    \/ CloseSuccessModal
    \/ CloseSignupPrompt
    \/ ~FormBusy /\ \E c \in CallIds, thrown \in FormRejections : FetchRejects(c, thrown)
    \/ ~FormBusy /\ \E c \in CallIds, response \in FormResponses : FetchResolves(c, response)
    \/ ~FormBusy /\ \E c \in CallIds : JsonSettles(c)

SpecForm == InitForm /\ [][NextForm]_vars

\* ------------------------------------------------ submission client claims
RequestsOf(c) == {i \in 1..Len(network) : network[i].call = c}
LogsOf(c) == {i \in 1..Len(console) : console[i].call = c}
Done(c) == calls[c].pc = "done"
Received(c) == calls[c].response # NoResponse
Is2xx(c) == calls[c].response.status \in 200..299
\* the body was parsed to a value whose properties can be read
Readable(c) == calls[c].response.body \notin {ParseFail, JNull}
\* body.key, Undefined when the body has no such key
Field(c, key) ==
    IF key \in DOMAIN calls[c].response.body THEN calls[c].response.body[key]
    ELSE Undefined
NoCredential(c) == calls[c].apiKey \in {Undefined, Str("")}
Serialisable(data) == \A i \in 1..Len(data) : data[i][2] # BigInt

\* C1: whatever the payload, a call without a credential (undefined or
\* empty) makes no network request, logs the payload once, and returns
\* exactly {success: true, message: 'Development mode - submission logged
\* to console'}.
C1_DevModeNoNetwork ==
    \A c \in CallIds :
        NoCredential(c) =>
            /\ Done(c)
            /\ calls[c].result =
                 [success |-> TRUE,
                  message |-> Str("Development mode - submission logged to console")]
            /\ RequestsOf(c) = {}
            /\ Cardinality(LogsOf(c)) = 1
            /\ \A i \in LogsOf(c) : console[i].args[2] = calls[c].data

C1_Witness ==
    \E c \in CallIds :
        /\ calls[c].apiKey = Str("")
        /\ calls[c].data # <<>>
        /\ Done(c)
        /\ Len(console) = 1

\* C2 as claimed: every result is success-tagged exactly when a response
\* with a success status was received and its body parsed; every parse
\* or network failure gives 'Failed to submit form' and the error's text.
C2_SuccessIffOkAndParsed ==
    \A c \in CallIds :
        Done(c) =>
            /\ calls[c].result.success <=>
                 (Received(c) /\ Is2xx(c) /\ calls[c].response.body # ParseFail)
            /\ (calls[c].thrown # NoThrow) =>
                 /\ calls[c].result.message = Str("Failed to submit form")
                 /\ calls[c].result.error =
                      Str(IF calls[c].thrown.t = "Error" THEN calls[c].thrown.message
                          ELSE calls[c].thrown.s)

\* C2 amended: for a call with a credential, the result is success-tagged
\* exactly when a response with a 2xx status was received and its body
\* parsed to a non-null value; whenever something was thrown (network
\* failure, unparseable body, null body, unserialisable payload) the
\* result is failure-tagged with message 'Failed to submit form' and error
\* the thrown Error's message, or 'Unknown error' for any other value.
C2_Amended ==
    \A c \in CallIds :
        /\ (Done(c) /\ ~NoCredential(c)) =>
             (calls[c].result.success <=> (Received(c) /\ Is2xx(c) /\ Readable(c)))
        /\ (Done(c) /\ NoCredential(c)) => calls[c].result.success
        /\ (Done(c) /\ (~Received(c) \/ ~Readable(c)) /\ ~NoCredential(c)) =>
             /\ calls[c].thrown # NoThrow
             /\ calls[c].result =
                  [success |-> FALSE,
                   message |-> Str("Failed to submit form"),
                   error |-> Str(IF calls[c].thrown.t = "Error"
                                 THEN calls[c].thrown.message
                                 ELSE "Unknown error")]

C2_Witness ==
    /\ \E c \in CallIds :
          Done(c) /\ Received(c) /\ Is2xx(c) /\ calls[c].response.body = JNull
             /\ ~calls[c].result.success

\* C3 as claimed: every 2xx response gives success, the fixed message and
\* the body's submissionId.
C3_Every2xxSucceeds ==
    \A c \in CallIds :
        (Done(c) /\ Received(c) /\ Is2xx(c)) =>
            calls[c].result =
                [success |-> TRUE,
                 message |-> Str("Form submitted successfully"),
                 submissionId |-> Field(c, "submissionId")]

\* C3 amended: every 2xx response whose body parses to a non-null JSON
\* value gives success=true, message 'Form submitted successfully' and
\* submissionId equal to the body's submissionId (undefined when the body
\* has none); a 2xx response whose body does not parse, or is null, gives
\* the failure result of the catch block.
C3_Amended ==
    \A c \in CallIds :
        (Done(c) /\ Received(c) /\ Is2xx(c)) =>
            IF Readable(c)
            THEN calls[c].result =
                    [success |-> TRUE,
                     message |-> Str("Form submitted successfully"),
                     submissionId |-> Field(c, "submissionId")]
            ELSE /\ ~calls[c].result.success
                 /\ calls[c].result.message = Str("Failed to submit form")

C3_Witness ==
    /\ \E c \in CallIds :
          Done(c) /\ Received(c) /\ calls[c].response.status = 201
             /\ calls[c].result.success
             /\ calls[c].result.submissionId = Str("s1")
             /\ calls[c].apiKey = Str("k1")

\* C4 as claimed: every non-2xx response gives success=false, the body's
\* message if present and else 'Submission failed', and the body's error
\* and signupUrl.
C4_EveryNon2xxRejected ==
    \A c \in CallIds :
        (Done(c) /\ Received(c) /\ ~Is2xx(c)) =>
            calls[c].result =
                [success |-> FALSE,
                 message |-> IF "message" \in DOMAIN calls[c].response.body
                             THEN calls[c].response.body.message
                             ELSE Str("Submission failed"),
                 error |-> Field(c, "error"),
                 signupUrl |-> Field(c, "signupUrl")]

\* C4 amended: every non-2xx response whose body parses to a non-null
\* JSON value gives success=false, message equal to the body's message
\* when that is a non-empty string and 'Submission failed' otherwise
\* (absent, empty or null), and error and signupUrl copied from the body
\* (undefined when absent).
C4_Amended ==
    \A c \in CallIds :
        (Done(c) /\ Received(c) /\ ~Is2xx(c) /\ Readable(c)) =>
            calls[c].result =
                [success |-> FALSE,
                 message |-> IF /\ Field(c, "message").t = "string"
                                /\ Field(c, "message").s # ""
                             THEN Field(c, "message")
                             ELSE Str("Submission failed"),
                 error |-> Field(c, "error"),
                 signupUrl |-> Field(c, "signupUrl")]

C4_Witness ==
    /\ \E c \in CallIds :
          /\ Done(c) /\ Received(c) /\ calls[c].response.status = 401
          /\ Readable(c)
          /\ Field(c, "message") = Str("")
          /\ calls[c].result.message = Str("Submission failed")
          /\ calls[c].result.error = Str("Bad request")

\* the call ended because the fetch promise rejected
FetchFailed(c) ==
    Done(c) /\ RequestsOf(c) # {} /\ ~Received(c)

\* C5: when the network request throws, the result is success=false,
\* message 'Failed to submit form', error the thrown Error's message, or
\* 'Unknown error' when the thrown value is no Error; it has no
\* submissionId and no signupUrl.
C5_NetworkErrorResult ==
    \A c \in CallIds :
        FetchFailed(c) =>
            /\ calls[c].thrown \in Rejections
            /\ calls[c].result.success = FALSE
            /\ calls[c].result.message = Str("Failed to submit form")
            /\ calls[c].result.error =
                 (IF calls[c].thrown.t = "Error" THEN Str(calls[c].thrown.message)
                  ELSE Str("Unknown error"))
            /\ DOMAIN calls[c].result = {"success", "message", "error"}

C5_Witness ==
    \E c \in CallIds :
        /\ FetchFailed(c)
        /\ calls[c].thrown = Str("boom")
        /\ calls[c].result.error = Str("Unknown error")

\* C6 as claimed: a call with a credential issues exactly one network
\* request whatever its outcome; a call without one issues none and logs
\* one line.
C6_ExactlyOneRequest ==
    \A c \in CallIds :
        IF NoCredential(c)
        THEN RequestsOf(c) = {} /\ Cardinality(LogsOf(c)) = 1
        ELSE Cardinality(RequestsOf(c)) = 1 /\ LogsOf(c) = {}

\* C6 amended: a call with a credential and a payload that JSON.stringify
\* can serialise issues exactly one network request, whatever the outcome
\* (2xx, non-2xx, thrown error), and logs nothing; with a payload that
\* JSON.stringify throws on it issues none; a call without a credential
\* issues none and logs exactly one line.
C6_Amended ==
    \A c \in CallIds :
        IF NoCredential(c)
        THEN RequestsOf(c) = {} /\ Cardinality(LogsOf(c)) = 1
        ELSE /\ LogsOf(c) = {}
             /\ Cardinality(RequestsOf(c)) =
                  (IF Serialisable(calls[c].data) THEN 1 ELSE 0)

C6_Witness ==
    \E c \in CallIds :
        /\ Done(c) /\ ~NoCredential(c)
        /\ Received(c) /\ ~Is2xx(c)
        /\ Cardinality(RequestsOf(c)) = 1
        /\ Len(network) = 1

\* the JSON text of each payload of the model
ExpectedBody(data) ==
    CASE data = <<>> -> "{}"
      [] data = << <<"email", Str("a@b.com")>> >> -> "{\"email\":\"a@b.com\"}"
      [] data = << <<"name", Str("")>>, <<"company", JNull>>, <<"message", Undefined>> >>
           -> "{\"name\":\"\",\"company\":null}"
      [] data = << <<"interests", Arr(<<Str("coding"), Str("design")>>)>>,
                   <<"newsletter", Bool(TRUE)>> >>
           -> "{\"interests\":[\"coding\",\"design\"],\"newsletter\":true}"
      [] OTHER -> "?"

\* C7: with credential k and payload d the request is a POST to
\* <base-url>/api/submit, its body the JSON encoding of d, its headers
\* exactly Content-Type: application/json and X-FormFlow-API-Key: k; the
\* credential appears in that header only.
C7_RequestShape ==
    \A i \in 1..Len(network) :
        LET c == network[i].call
            r == network[i].request
        IN /\ r.url = "https://formflow.sh/api/submit"
           /\ r.method = "POST"
           /\ r.headers = [ContentType |-> "application/json",
                           XFormFlowAPIKey |-> calls[c].apiKey.s]
           /\ calls[c].apiKey.s # ""
           /\ r.body = ExpectedBody(calls[c].data)
           /\ DOMAIN r = {"url", "method", "headers", "body"}

C7_Witness ==
    \E i \in 1..Len(network) :
        /\ network[i].request.headers.XFormFlowAPIKey = "k1"
        /\ network[i].request.body = "{\"name\":\"\",\"company\":null}"

\* ------------------------------------------------------------ hook claims
CallsOf(a) == {c \in CallIds : calls[c].caller = a}
EventsOf(a, ev) == {i \in 1..Len(events) : events[i].attempt = a /\ events[i].ev = ev}
\* every registered rule passes on the values the attempt submitted
RulesPass(a) ==
    \A f \in options.required :
        f \in DOMAIN attempts[a].data /\ attempts[a].data[f] # ""
\* the submission client has returned to attempt a, and the hook has acted on it
Settled(a) ==
    /\ attempts[a].call # 0
    /\ calls[attempts[a].call].pc = "done"
    /\ attempts[a].pc \in {"reset", "catch", "finish", "done"}
ResultOf(a) == calls[attempts[a].call].result

\* C8: the submit handler calls the submission client only after the
\* engine's validation passed for the current values, and then with these
\* values and the credential; when a registered rule fails there is no
\* network request, no onSuccess and no reset.
C8_ValidationGatesSubmission ==
    \A a \in AttemptIds :
        /\ \A c \in CallsOf(a) :
              /\ RulesPass(a)
              /\ calls[c].data = Payload(attempts[a].data)
              /\ calls[c].apiKey = options.apiKey
              /\ attempts[a].call = c
        /\ ~RulesPass(a) =>
              /\ CallsOf(a) = {}
              /\ \A i \in 1..Len(network) : network[i].call \notin CallsOf(a)
              /\ EventsOf(a, "onSuccess") = {}
              /\ EventsOf(a, "reset") = {}
              /\ attempts[a].pc \in {"validate", "finish", "done"}

C8_Witness ==
    \E a \in AttemptIds :
        /\ ~RulesPass(a)
        /\ attempts[a].pc = "done"
        /\ options.apiKey = Str("k1")
        /\ network = <<>>
        /\ errors = {"email"}
        /\ formValues = attempts[a].data
        /\ "name" \in DOMAIN formValues /\ formValues["name"] = "Ann"

\* C9 as claimed: after a success-tagged result the hook has invoked
\* onSuccess exactly once, with the submitted values and the result, and
\* has then reset the form.
C9_SuccessThenReset ==
    \A a \in AttemptIds :
        (attempts[a].pc = "done" /\ Settled(a) /\ ResultOf(a).success
            /\ options.onSuccess) =>
            /\ Cardinality(EventsOf(a, "onSuccess")) = 1
            /\ \A i \in EventsOf(a, "onSuccess") :
                  /\ events[i].data = attempts[a].data
                  /\ events[i].arg = ResultOf(a)
                  /\ \E j \in EventsOf(a, "reset") : j > i

\* C9 amended: after a success-tagged result the hook invokes onSuccess
\* exactly once with the submitted (pre-reset) values and the full
\* result; if onSuccess returns, the hook then resets the form, after
\* which getValues() gives the configured default values (the empty
\* mapping if none); if onSuccess throws, the form is not reset.
C9_Amended ==
    \A a \in AttemptIds :
        (Settled(a) /\ ResultOf(a).success) =>
            LET called == EventsOf(a, "onSuccess")
                resets == EventsOf(a, "reset")
                returned == \A i \in called : events[i].outcome = Returns
            IN /\ Cardinality(called) = (IF options.onSuccess THEN 1 ELSE 0)
               /\ \A i \in called :
                     /\ events[i].data = attempts[a].data
                     /\ events[i].arg = ResultOf(a)
                     /\ \A j \in resets : j > i
               /\ IF returned /\ attempts[a].pc \in {"finish", "done"}
                  THEN Cardinality(resets) = 1
                  ELSE resets = {}
               /\ (attempts[a].pc = "finish" /\ resets # {}) =>
                     /\ formValues = options.defaultValues
                     /\ errors = {}

C9_Witness ==
    \E a \in AttemptIds :
        /\ attempts[a].pc = "finish"
        /\ EventsOf(a, "reset") # {}
        /\ EventsOf(a, "onSuccess") # {}
        /\ ResultOf(a).success
        /\ ResultOf(a).message = Str("Form submitted successfully")
        /\ attempts[a].data = [email |-> "a@b.com", name |-> "Ann"]
        /\ formValues = [email |-> "", name |-> ""]

\* the step is one of attempt a's own
StepOf(a) == a \in AttemptIds /\ attempts'[a] # attempts[a]

\* C10: after a failure-tagged result (a server rejection, or a network
\* failure recovered into a result) the hook invokes onError with that
\* result, invokes no onSuccess and does not reset the form: no step of
\* the attempt changes a field value.
C10_FailureKeepsValues ==
    /\ [](\A a \in AttemptIds :
            (Settled(a) /\ ~ResultOf(a).success) =>
                /\ options.onError =>
                      /\ EventsOf(a, "onError") # {}
                      /\ \A i \in EventsOf(a, "onError") :
                            (\A j \in EventsOf(a, "onError") : i <= j) =>
                                events[i].arg = ResultOf(a)
                /\ EventsOf(a, "onSuccess") = {}
                /\ EventsOf(a, "reset") = {})
    /\ [][\A a \in AttemptIds :
            (StepOf(a) /\ attempts[a].call # 0 /\ calls[attempts[a].call].pc = "done"
                /\ ~ResultOf(a).success) =>
                formValues' = formValues]_vars

C10_Witness ==
    \E a \in AttemptIds :
        /\ attempts[a].pc = "done"
        /\ Settled(a)
        /\ ResultOf(a) = [success |-> FALSE, message |-> Str("Invalid API key"),
                          error |-> Str("Unauthorized"), signupUrl |-> Undefined]
        /\ \E i \in EventsOf(a, "onError") : events[i].arg = ResultOf(a)
        /\ formValues = attempts[a].data
        /\ formValues # options.defaultValues

\* ------------------------------------------------------------ hook, flags
\* attempt a passed validation and the submission client has not returned
InFlight(a) ==
    \/ attempts[a].pc = "onValid"
    \/ attempts[a].pc = "await" /\ calls[attempts[a].call].pc # "done"
AllDone == \A a \in AttemptIds : attempts[a].pc = "done"
Begins == Len(attempts') > Len(attempts)
Ends == \E a \in AttemptIds : attempts[a].pc = "finish" /\ attempts'[a].pc = "done"

ThrewAt(i) == events[i].ev # "reset" /\ events[i].outcome # Returns
\* events[i] is the onError call of the catch block (its argument is an
\* Error, not a result)
InCatch(i) == events[i].ev = "onError" /\ "success" \notin DOMAIN events[i].arg
\* the catch block has run for the attempt of events[i]
Caught(i) == attempts[events[i].attempt].pc \in {"finish", "done"}
LaterOf(i) == {j \in 1..Len(events) : j > i /\ events[j].attempt = events[i].attempt}
UnknownError == [t |-> "Error", name |-> "Error", message |-> "Unknown error"]
Reported(i, j) ==
    /\ events[j].ev = "onError"
    /\ events[j].arg = IF events[i].outcome.t = "Error" THEN events[i].outcome
                       ELSE UnknownError

\* C12: whatever throws in the submit sequence after validation, onError is
\* then invoked with the thrown value when it is an Error, and otherwise
\* with a new Error whose message is 'Unknown error'.
C12_EveryThrowReported ==
    \A i \in 1..Len(events) :
        (ThrewAt(i) /\ Caught(i)) => \E j \in LaterOf(i) : Reported(i, j)

\* C12 (amended): what a callback throws inside the try block (onSuccess,
\* or onError called with a failure result) is caught, and onError is
\* invoked once more, with the thrown value when it is an Error and
\* otherwise with a new Error whose message is 'Unknown error'; nothing else
\* of the attempt follows, the form is not reset. What onError throws inside
\* the catch block is reported to nobody: it leaves the submit handler.
C12_Amended ==
    \A i \in 1..Len(events) :
        (ThrewAt(i) /\ Caught(i)) =>
            IF InCatch(i)
            THEN /\ LaterOf(i) = {}
                 /\ attempts[events[i].attempt].pc = "finish" =>
                        attempts[events[i].attempt].thrown = events[i].outcome
                 /\ attempts[events[i].attempt].pc = "done" =>
                        attempts[events[i].attempt].promise = "rejected"
            ELSE /\ Cardinality(LaterOf(i)) = 1
                 /\ \A j \in LaterOf(i) : Reported(i, j)

C12_Witness ==
    \E i, j \in 1..Len(events) :
        /\ i < j
        /\ events[i].attempt = events[j].attempt
        /\ events[i].ev = "onError"
        /\ events[i].outcome = Str("oops")
        /\ events[j].ev = "onError"
        /\ events[j].arg = UnknownError
        /\ Caught(i)

\* C13: the promise returned by the submit handler never rejects, whatever
\* the failure: a validation failure, a server rejection, a transport
\* failure or a thrown error.
C13_NeverRejects ==
    \A a \in AttemptIds : attempts[a].promise # "rejected"

\* C13 (amended): the promise returned by the submit handler rejects in
\* one case only, when onError itself throws inside the catch block; a
\* validation failure, a server rejection, a transport failure and a throw
\* inside the try block all end with the promise resolved, the failure
\* left in the engine's errors or handed to onError.
C13_Amended ==
    \A a \in AttemptIds :
        attempts[a].pc = "done" =>
            /\ attempts[a].promise = "rejected" <=>
                    \E i \in EventsOf(a, "onError") : InCatch(i) /\ ThrewAt(i)
            /\ ~RulesPass(a) =>
                    /\ attempts[a].promise = "resolved"
                    /\ attempts[a].call = 0
            /\ (attempts[a].call # 0 /\ ~ResultOf(a).success /\ options.onError) =>
                    \E i \in EventsOf(a, "onError") : events[i].arg = ResultOf(a)

C13_Witness ==
    \E a \in AttemptIds :
        /\ attempts[a].pc = "done"
        /\ attempts[a].promise = "rejected"
        /\ ~isSubmitting
        /\ \E i \in EventsOf(a, "onError") :
                events[i].outcome = Error("Error", "callback failed")

\* ------------------------------------------------------ hook, re-entrancy
\* the callback events of attempt a that carry a submitForm result
ResultEventsOf(a) ==
    {i \in 1..Len(events) :
        /\ events[i].attempt = a
        /\ events[i].ev # "reset"
        /\ "success" \in DOMAIN events[i].arg}

\* C14: the hook does not suppress re-entrant submits: every trigger,
\* also one made while an earlier submission is in flight, is validated and,
\* when its values pass, makes its own call of the submission client (with
\* a credential: its own network request), and each call's result goes to
\* one callback invocation of the attempt that made the call.
C14_ReentrantSubmitsRun ==
    \A a \in AttemptIds :
        /\ attempts[a].pc \in {"await", "reset", "catch", "finish", "done"} =>
              IF RulesPass(a)
              THEN /\ attempts[a].call # 0
                   /\ CallsOf(a) = {attempts[a].call}
                   /\ calls[attempts[a].call].data = Payload(attempts[a].data)
                   /\ options.apiKey = Str("k1") =>
                          Cardinality(RequestsOf(attempts[a].call)) = 1
              ELSE attempts[a].call = 0 /\ CallsOf(a) = {}
        /\ (attempts[a].pc = "done" /\ attempts[a].call # 0 /\ options.onSuccess
                /\ options.onError) =>
              /\ Cardinality(ResultEventsOf(a)) = 1
              /\ \A i \in ResultEventsOf(a) :
                    /\ events[i].arg = ResultOf(a)
                    /\ events[i].ev = IF ResultOf(a).success THEN "onSuccess"
                                      ELSE "onError"

C14_Witness ==
    \E a, b \in AttemptIds :
        /\ a < b
        /\ attempts[a].pc = "await"
        /\ attempts[b].pc = "await"
        /\ attempts[a].call # attempts[b].call
        /\ calls[attempts[a].call].pc = "fetching"
        /\ calls[attempts[b].call].pc = "fetching"
        /\ Len(network) = 2
        /\ network[1].call = attempts[a].call
        /\ network[2].call = attempts[b].call

\* ------------------------------------------------ utils/validation claims
\* the first call made was validateField, on a pattern never used before
FirstIsField == outputs # <<>> /\ outputs[1].fn = "validateField"
IsString == value.t = "string"
\* null, undefined, empty or nothing but white space
Blank == ~IsString \/ \A i \in 1..Len(value.cs) : value.cs[i] \in WhiteSpace
NonEmpty == IsString /\ Len(value.cs) > 0
\* what each rule asks of the value, in the order required, minLength,
\* maxLength, email, pattern; a rule other than required asks nothing of an
\* empty or absent value
RuleFails(k) ==
    CASE k = 1 -> rules.required = Bool(TRUE) /\ Blank
      [] k = 2 -> /\ rules.minLength # Undefined /\ NonEmpty
                  /\ Len(value.cs) < rules.minLength.n
      [] k = 3 -> /\ rules.maxLength # Undefined /\ NonEmpty
                  /\ Len(value.cs) > rules.maxLength.n
      [] k = 4 -> /\ rules.email = Bool(TRUE) /\ NonEmpty
                  /\ ~EmailRegexTest(value.cs)
      [] k = 5 -> /\ rules.pattern # Undefined /\ NonEmpty
                  /\ \A p \in 0..Len(value.cs) : ~MatchesAt(rules.pattern, value.cs, p)
FailingRules == {k \in 1..5 : RuleFails(k)}
DefaultMessage(k) ==
    CASE k = 1 -> "This field is required"
      [] k = 2 -> "Minimum " \o ToString(rules.minLength.n) \o " characters required"
      [] k = 3 -> "Maximum " \o ToString(rules.maxLength.n) \o " characters allowed"
      [] k = 4 -> "Invalid email address"
      [] k = 5 -> "Invalid format"
\* a custom message that is not the empty string
HasCustomMessage == rules.message \notin {Undefined, Str("")}

\* C15: validateField returns {valid: false} with the message of the
\* earliest failing rule in the order required, minLength, maxLength, email,
\* pattern, and {valid: true} only when no rule fails.
C15_EarliestFailingRule ==
    FirstIsField =>
        IF FailingRules = {}
        THEN outputs[1].result = [valid |-> TRUE]
        ELSE outputs[1].result =
                [valid |-> FALSE,
                 message |-> IF HasCustomMessage THEN rules.message
                             ELSE Str(DefaultMessage(Least(FailingRules)))]

\* validateField("a", {maxLength: 0}) returned {valid: true}
C15_Witness ==
    /\ FirstIsField
    /\ value = Text(<<"a">>)
    /\ rules = [NoRules EXCEPT !.maxLength = Num(0)]
    /\ outputs[1].result = [valid |-> TRUE]

FieldCalls == {i \in 1..Len(outputs) : outputs[i].fn = "validateField"}

\* C16: for an empty (or absent) value and rules that do not mark the field
\* required, validateField returns {valid: true} whatever minLength,
\* maxLength, email and pattern rules are present.
C16_EmptyOptionalIsValid ==
    (~NonEmpty /\ rules.required # Bool(TRUE)) =>
        \A i \in FieldCalls : outputs[i].result = [valid |-> TRUE]

C16_Witness ==
    /\ value = Text(<<>>)
    /\ rules.required = Bool(FALSE)
    /\ rules.minLength = Num(3)
    /\ rules.maxLength = Num(1)
    /\ rules.email = Bool(TRUE)
    /\ rules.pattern # Undefined
    /\ Len(outputs) = 2
    /\ outputs[2] = [fn |-> "validateField", result |-> [valid |-> TRUE]]

\* C17: with required set, validateField fails with the required message
\* exactly when the value is null, undefined, empty or nothing but white
\* space; a value with a character that is not white space passes the
\* required rule, the result being that of the other rules alone.
C17_RequiredIffBlank ==
    rules.required = Bool(TRUE) =>
        IF Blank
        THEN \A i \in FieldCalls :
                outputs[i].result =
                    [valid |-> FALSE,
                     message |-> IF HasCustomMessage THEN rules.message
                                 ELSE Str("This field is required")]
        ELSE FirstIsField =>
                /\ outputs[1].result =
                      ValidateField(value, [rules EXCEPT !.required = Undefined], 0).result
                /\ \/ outputs[1].result.valid
                   \/ HasCustomMessage
                   \/ outputs[1].result.message # Str("This field is required")

C17_Witness ==
    /\ value = Text(<<" ", "\t">>)
    /\ rules = [NoRules EXCEPT !.required = Bool(TRUE)]
    /\ FirstIsField
    /\ outputs[1].result = [valid |-> FALSE, message |-> Str("This field is required")]

\* the rule that made the first call fail: the earliest failing one, a
\* length rule of 0 counting as absent
Enforced ==
    {k \in FailingRules :
        /\ k = 2 => rules.minLength # Num(0)
        /\ k = 3 => rules.maxLength # Num(0)}
Failed1 == FirstIsField /\ ~outputs[1].result.valid

\* C18: whichever rule fails, the returned message is rules.message when the
\* caller gave one, and otherwise the default of the failing rule; a passing
\* result carries no message.
C18_MessageOverridesDefault ==
    FirstIsField =>
        IF outputs[1].result.valid
        THEN DOMAIN outputs[1].result = {"valid"}
        ELSE outputs[1].result.message =
                IF rules.message # Undefined THEN rules.message
                ELSE Str(DefaultMessage(Least(Enforced)))

\* C18 (amended): whichever rule fails, the returned message is
\* rules.message when the caller gave one that is not the empty string, and
\* otherwise (no message, or the empty string) the default of the failing
\* rule; a passing result carries no message.
C18_Amended ==
    FirstIsField =>
        IF outputs[1].result.valid
        THEN DOMAIN outputs[1].result = {"valid"}
        ELSE /\ Enforced # {}
             /\ outputs[1].result.message =
                   IF rules.message \notin {Undefined, Str("")} THEN rules.message
                   ELSE Str(DefaultMessage(Least(Enforced)))

C18_Witness ==
    /\ Failed1
    /\ rules.message = Str("")
    /\ rules.minLength = Num(3)
    /\ value = Text(<<"a">>)
    /\ outputs[1].result.message = Str("Minimum 3 characters required")

\* C19: validateField is idempotent: called twice with the same value and
\* the same rules object, whatever regular expression the pattern is, it
\* returns the same result, and it leaves no state behind.
C19_Idempotent ==
    /\ \A i, j \in FieldCalls : outputs[i].result = outputs[j].result
    /\ lastIndex = 0

\* validateField("a", {pattern: /a/g}) twice: valid, then 'Invalid format'
C19_Witness ==
    /\ value = Text(<<"a">>)
    /\ rules = [NoRules EXCEPT !.pattern = RegExp(<<{"a"}>>, FALSE, FALSE, TRUE)]
    /\ Len(outputs) = 2
    /\ outputs[1] = [fn |-> "validateField", result |-> [valid |-> TRUE]]
    /\ outputs[2] = [fn |-> "validateField",
                     result |-> [valid |-> FALSE, message |-> Str("Invalid format")]]

PhoneCalls == {i \in 1..Len(outputs) : outputs[i].fn = "validatePhone"}
AllCharsIn(S) == \A k \in 1..Len(value.cs) : value.cs[k] \in S

\* C20: validatePhone(p) is true exactly when p has 10 or more characters,
\* all of them digits, spaces, hyphens, plus signs or parentheses.
C20_PhoneDigitsAndSpaces ==
    \A i \in PhoneCalls :
        outputs[i].result <=>
            /\ Len(value.cs) >= 10
            /\ AllCharsIn({"1", "2", " ", "-", "+", "(", ")"})

\* C20 (amended): validatePhone(p) is true exactly when p has 10 or more
\* characters, all of them digits, white space of any kind (a blank, a tab,
\* ...), hyphens, plus signs or parentheses; it is false for the empty
\* string, for a shorter string and for a string with any other character.
C20_Amended ==
    \A i \in PhoneCalls :
        outputs[i].result <=>
            /\ Len(value.cs) >= 10
            /\ AllCharsIn({"1", "2", " ", "\t", "-", "+", "(", ")"})

C20_Witness ==
    /\ value = Text(<<"(">> \o Repeat("1", 8) \o <<"\t">>)
    /\ PhoneCalls # {}
    /\ \A i \in PhoneCalls : outputs[i].result

EmailCalls == {i \in 1..Len(outputs) : outputs[i].fn = "validateEmail"}
\* local@domain.tld: one '@', not the first character, no white space, and
\* after the '@' a '.' that is neither next to it nor the last character
EmailShaped ==
    LET ats == {k \in 1..Len(value.cs) : value.cs[k] = "@"}
        at == CHOOSE k \in ats : TRUE
    IN /\ Cardinality(ats) = 1
       /\ \A k \in 1..Len(value.cs) : value.cs[k] \notin {" ", "\t"}
       /\ at > 1
       /\ \E dot \in (at + 2)..(Len(value.cs) - 1) : value.cs[dot] = "."

\* C21: validateEmail(v) and validateField(v, {email: true}).valid agree on
\* every non-empty string v, both true exactly for the strings of shape
\* local@domain.tld with no white space and a single '@'; validateEmail('')
\* is false.
C21_SameEmailCheck ==
    /\ \A i \in EmailCalls :
          /\ outputs[i].result <=> EmailShaped
          /\ NonEmpty =>
                outputs[i].result = ValidateField(value, EmailOnly, 0).result.valid
          /\ value = Text(<<>>) => ~outputs[i].result
    /\ (rules = EmailOnly /\ NonEmpty) =>
          \A i \in FieldCalls :
              /\ outputs[i].result.valid <=> EmailShaped
              /\ outputs[i].result.valid = ValidateEmail(value.cs)

C21_Witness ==
    /\ value = Text(<<"a", "@", "a", ".", "a">>)
    /\ Len(outputs) = 1
    /\ outputs[1].fn = "validateEmail"
    /\ outputs[1].result
    /\ ValidateField(value, EmailOnly, 0).result = [valid |-> TRUE]

\* ------------------------------------------------------ hook, event order
AllEventsOf(a) == {i \in 1..Len(events) : events[i].attempt = a}
BothCallbacks == options.onSuccess /\ options.onError

\* C22: for one submit action through the hook, validation completes before
\* the call of the submission client begins, the callback fires only after
\* that call has settled, and isSubmitting flips to false only after the
\* callback has been invoked, at the end of the submit handler.
C22_EventOrder ==
    /\ [](\A a \in AttemptIds :
            /\ attempts[a].pc \in {"validate", "onValid"} =>
                  attempts[a].call = 0 /\ CallsOf(a) = {} /\ AllEventsOf(a) = {}
            /\ attempts[a].call # 0 =>
                  /\ RulesPass(a)
                  /\ calls[attempts[a].call].pc # "done" => AllEventsOf(a) = {}
            /\ AllEventsOf(a) # {} =>
                  attempts[a].call # 0 /\ calls[attempts[a].call].pc = "done"
            /\ (attempts[a].pc = "done" /\ attempts[a].call # 0 /\ BothCallbacks) =>
                  ResultEventsOf(a) # {})
    /\ []((Len(attempts) = 1 /\ attempts[1].pc # "done") => isSubmitting)
    /\ [][(isSubmitting /\ ~isSubmitting') =>
            \E a \in AttemptIds :
                /\ attempts[a].pc = "finish" /\ attempts'[a].pc = "done"
                /\ events' = events
                /\ (attempts[a].call # 0 /\ BothCallbacks) => ResultEventsOf(a) # {}]_vars

C22_Witness ==
    /\ Len(attempts) = 1
    /\ attempts[1].pc = "done"
    /\ ~isSubmitting
    /\ Len(network) = 1
    /\ network[1].call = attempts[1].call
    /\ Received(attempts[1].call)
    /\ calls[attempts[1].call].response.status = 200
    /\ Len(events) = 2
    /\ events[1].ev = "onSuccess"
    /\ events[2].ev = "reset"

\* C30: submitForm is total.  Whatever the payload, the credential and the
\* transport do, a call that has returned holds a result whose success is
\* a boolean and whose message is not empty (truthy); a call holds a result
\* exactly when it has returned; and whatever was thrown inside it (by
\* JSON.stringify, by fetch, by response.json(), by reading a null result)
\* was turned into the catch block's result instead of leaving it.
C30_Total ==
    \A c \in CallIds :
        /\ calls[c].pc \in {"fetching", "parsing", "done"}
        /\ Done(c) <=> calls[c].result # NoResult
        /\ Done(c) =>
              /\ calls[c].result.success \in BOOLEAN
              /\ Truthy(Get(calls[c].result, "message"))
        /\ calls[c].thrown # NoThrow =>
              Done(c) /\ calls[c].result = CatchResult(calls[c].thrown)

\* a 401 whose body carries an empty message has been turned into a result
C30_Witness ==
    \E c \in CallIds :
        /\ Done(c)
        /\ Received(c)
        /\ calls[c].response.status = 401
        /\ calls[c].response.body = [message |-> Str(""), error |-> Str("Bad request")]
        /\ calls[c].result.message = Str("Submission failed")

\* the callback invocations of attempt a, in the order they were made
CallbacksOf(a) ==
    SelectSeq(events, LAMBDA e : e.attempt = a /\ e.ev \in {"onSuccess", "onError"})

\* C27: each validated submit attempt through the hook results in at most
\* one callback invocation in total, also when a callback itself throws.
C27_AtMostOneCallback ==
    \A a \in AttemptIds : Len(CallbacksOf(a)) <= 1

\* onError threw on a failure-tagged result and was invoked a second time,
\* and threw again
C27_Witness ==
    \E a \in AttemptIds :
        /\ attempts[a].pc = "done"
        /\ Len(CallbacksOf(a)) = 2
        /\ CallbacksOf(a)[1].ev = "onError"
        /\ CallbacksOf(a)[1].outcome # Returns
        /\ CallbacksOf(a)[2].outcome # Returns

\* C29: the reset of a successful submission restores every field to its
\* default whenever the field was edited: the step that resets leaves the
\* defaults in every field, also in one edited while the submission was in
\* flight; a submission accepted by the backend whose onSuccess returned is
\* followed by that reset; and no step of an attempt whose result is
\* failure-tagged changes a field value.
C29_ResetClearsInFlightEdits ==
    /\ [][\A a \in AttemptIds :
            (attempts[a].pc = "reset" /\ attempts'[a].pc # "reset") =>
                formValues' = options.defaultValues]_vars
    /\ [][\A a \in AttemptIds :
            (/\ StepOf(a)
             /\ attempts[a].call # 0
             /\ calls[attempts[a].call].pc = "done"
             /\ ~ResultOf(a).success) => formValues' = formValues]_vars
    /\ [](\A a \in AttemptIds :
            (/\ attempts[a].pc = "done"
             /\ attempts[a].call # 0
             /\ ResultOf(a).success
             /\ \A i \in EventsOf(a, "onSuccess") : events[i].outcome = Returns)
            => EventsOf(a, "reset") # {})

\* the first submission was accepted and reset the form after the form had
\* been edited (the second submit, made while the first was in flight,
\* carries other values), and the second is still in flight
C29_Witness ==
    /\ Len(attempts) = 2
    /\ attempts[1].pc \in {"finish", "done"}
    /\ EventsOf(1, "reset") # {}
    /\ attempts[2].pc = "await"
    /\ calls[attempts[2].call].pc # "done"
    /\ attempts[2].data # attempts[1].data
    /\ attempts[2].data # options.defaultValues
    /\ formValues = options.defaultValues

\* ------------------------------------------ FormFlow and template claims
\* what control n of the mounted form holds
EntryOf(n) == entries[CHOOSE i \in 1..Len(entries) : entries[i][1] = n][2]
OnlySpaces(cs) == \A i \in 1..Len(cs) : cs[i] \in {" ", "\t"}
\* the characters of cs between its first and last non-space
Inner(cs) == {i \in 1..Len(cs) : \E j, k \in 1..Len(cs) :
                 j <= i /\ i <= k /\ cs[j] \notin {" ", "\t"} /\ cs[k] \notin {" ", "\t"}}
\* what the template asks of control c is not met by the form as it stands
Unmet(c) ==
    CASE c.kind = "text" -> OnlySpaces(EntryOf(c.name))
      [] c.kind = "email" ->
           OnlySpaces(EntryOf(c.name)) \/ ~ValidateEmail(EntryOf(c.name))
      [] c.kind = "phone" ->
           OnlySpaces(EntryOf(c.name)) \/ ~ValidatePhone(EntryOf(c.name))
      [] c.kind = "min" -> Cardinality(Inner(EntryOf(c.name))) < c.min
      [] c.kind = "choice" -> EntryOf(c.name) = <<>>
      [] c.kind = "rating" -> widget.rating = JNull
      [] c.kind = "services" -> widget.services = <<>>
      [] OTHER -> FALSE
FailingControls ==
    {ControlsOf(props.template)[i].name : i \in
        {j \in 1..Len(ControlsOf(props.template)) : Unmet(ControlsOf(props.template)[j])}}
\* the template's validation failed for submit s
Refused(s) ==
    \E i \in 1..Len(formEvents) :
        /\ formEvents[i].ev = "onSubmit"
        /\ formEvents[i].submit = s
        /\ formEvents[i].outcome # Returns
StepOfSubmit(s) == s \in SubmitIds /\ submits'[s] # submits[s]
FormCallsOf(s) == {c \in CallIds : calls[c].caller = s}

\* C23: in every template the template's own validation runs before the
\* submission client.  At a submit event the errors map comes to hold a
\* message for exactly the controls whose check fails; when there is one,
\* the submit is refused: submitForm is never called for it, and neither
\* the submit event nor any later step of that submit changes what was
\* entered.  A submit with no failing control does reach submitForm.
C23_TemplatesValidateFirst ==
    /\ [][(IsTemplate /\ Len(submits') = Len(submits) + 1) =>
            /\ DOMAIN tplErrors' = FailingControls
            /\ \A n \in FailingControls : tplErrors'[n] # ""
            /\ Refused(Len(submits))' <=> FailingControls # {}
            /\ calls' = calls
            /\ entries' = entries /\ widget' = widget]_vars
    /\ [][\A s \in SubmitIds :
            (IsTemplate /\ Refused(s) /\ StepOfSubmit(s)) =>
                entries' = entries /\ widget' = widget /\ calls' = calls]_vars
    /\ [](\A s \in SubmitIds :
            IsTemplate =>
                /\ Refused(s) => submits[s].call = 0 /\ FormCallsOf(s) = {}
                /\ (~Refused(s) /\ submits[s].pc = "done") => FormCallsOf(s) # {})

\* a support ticket whose subject is too short once trimmed and whose
\* priority is not chosen was refused: two messages, no call, the name
\* still in its control
C23_Witness ==
    /\ props.template = "ticket"
    /\ Len(submits) = 1
    /\ submits[1].pc = "done"
    /\ DOMAIN tplErrors = {"subject", "priority"}
    /\ tplErrors["subject"] = "Subject must be at least 5 characters"
    /\ calls = <<>>
    /\ EntryOf("name") = <<"A", "n", "n">>
    /\ EntryOf("subject") = <<" ", "a", "a", "a", "a", " ">>

\* submit s is about to act on the failure-tagged response of submitForm
FailureArrived(s) ==
    /\ submits[s].pc = "await"
    /\ calls[submits[s].call].pc = "done"
    /\ ~calls[submits[s].call].result.success
FormResultOf(s) == calls[submits[s].call].result
\* what the step appends to the log
Logged == SubSeq(formEvents', Len(formEvents) + 1, Len(formEvents'))

\* C24: in the FormFlow wrapper the step that acts on a failure-tagged
\* result opens the sign-up prompt and invokes no onError when the result
\* carries a signupUrl; without a signupUrl it invokes onError (when there
\* is one) with the result, first of all, and leaves the prompt as it was;
\* either way it neither resets the form nor shows the success modal.
C24_SignupPromptOrOnError ==
    [][\A s \in SubmitIds :
        (FailureArrived(s) /\ StepOfSubmit(s)) =>
            /\ IF Truthy(Get(FormResultOf(s), "signupUrl"))
               THEN showSignupPrompt' /\ Logged = <<>>
               ELSE /\ showSignupPrompt' = showSignupPrompt
                    /\ HasOnError <=> Logged # <<>>
                    /\ HasOnError =>
                          /\ Logged[1].ev = "onError"
                          /\ Logged[1].submit = s
                          /\ Logged[1].arg = FormResultOf(s)
            /\ \A i \in 1..Len(Logged) : Logged[i].ev = "onError"
            /\ entries' = entries
            /\ showSuccessModal' = showSuccessModal
            /\ submits'[s].pc = "done"]_vars

\* a 401 with a signupUrl came back to a form of the caller's own: the
\* prompt is open, nothing was reported to onError, the entries stand
C24_Witness ==
    /\ ~IsTemplate
    /\ props.onError
    /\ Len(submits) = 1
    /\ submits[1].pc = "done"
    /\ submits[1].call # 0
    /\ Truthy(Get(calls[submits[1].call].result, "signupUrl"))
    /\ showSignupPrompt
    /\ ~showSuccessModal
    /\ \A i \in 1..Len(formEvents) : formEvents[i].ev # "onError"
    /\ entries # <<>>
    /\ \E i \in 1..Len(entries) : entries[i][2] # <<>>

\* the values of the entries named n, in document order
ValuesNamed(n) ==
    LET at == SelectSeq([i \in 1..Len(entries) |-> i], LAMBDA i : entries[i][1] = n)
    IN [k \in 1..Len(at) |-> Text(entries[at[k]][2])]
NamesEntered == {entries[i][1] : i \in 1..Len(entries)}
KeysOf(data) == {data[i][1] : i \in 1..Len(data)}

\* C25: the submit handler collects the entries of the form into a mapping
\* where a name that occurs once maps to its single value and a name that
\* occurs n >= 2 times maps to the array of its n values in document order,
\* empty strings included.
C25_CollectsEveryEntry ==
    [][(~IsTemplate /\ Len(submits') = Len(submits) + 1) =>
          LET data == submits'[Len(submits')].data IN
          /\ KeysOf(data) = NamesEntered
          /\ \A n \in NamesEntered :
                Lookup(data, n) = IF Len(ValuesNamed(n)) = 1 THEN ValuesNamed(n)[1]
                                  ELSE Arr(ValuesNamed(n))]_vars

\* two controls named "a", the first left empty: the mapping holds the
\* second value alone, not the array of both
C25_Witness ==
    /\ ~IsTemplate
    /\ entries = << <<"a", <<>>>>, <<"a", <<"x">>>> >>
    /\ Len(submits) = 1
    /\ submits[1].data = << <<"a", Text(<<"x">>)>> >>

AllSubmitsDone == \A s \in SubmitIds : submits[s].pc = "done"

\* C26: in every template the local isSubmitting flag, which disables the
\* submit button, is false again once every submit attempt has settled,
\* whether in success, in a failure-tagged result with or without a
\* signupUrl, or in a thrown error.
C26_TemplateFlagReturns ==
    (IsTemplate /\ AllSubmitsDone) => ~tplSubmitting

\* a contact form whose submission came back with a signupUrl: the prompt
\* was shown, nothing is in flight, and the template's flag is still set
C26_Witness ==
    /\ props.template = "contact"
    /\ Len(submits) = 1
    /\ submits[1].pc = "done"
    /\ submits[1].call # 0
    /\ Truthy(Get(calls[submits[1].call].result, "signupUrl"))
    /\ ~ffSubmitting
    /\ tplSubmitting

\* C28: FormFlow's isSubmitting is true in every state in which a
\* submission started by the form has not settled, also when two submit
\* events overlap and the first settles before the second.
C28_TrueWhileAnyInFlight ==
    (\E s \in SubmitIds : submits[s].pc # "done") => ffSubmitting

\* two submit events overlapped on a form of the caller's own; the first
\* has settled, the second is still waiting for the backend, and the flag
\* is down
C28_Witness ==
    /\ ~IsTemplate
    /\ Len(submits) = 2
    /\ submits[1].pc = "done"
    /\ submits[2].pc = "await"
    /\ calls[submits[2].call].pc = "fetching"
    /\ ~ffSubmitting
=============================================================================
